---- MODULE Spec2Model ----
(***************************************************************************)
(* State-machine model of the FAB bank statement parser                    *)
(* (fabBankAccountParser) of statement-parser-fab and of the line-driven   *)
(* statement machine that runs it.                                         *)
(*                                                                         *)
(* The repository holds four revisions of fab-bank-account-parser.ts:      *)
(*   "A"  src/src/parser/implemented-parsers/fab-bank-account-parser.ts    *)
(*   "B"  src/package.json, lines 528-958                                  *)
(*   "C"  src/unnamed/part_001                                             *)
(*   "D"  src/unnamed/part_000                                             *)
(* The variable rev fixes the revision a behaviour runs.                   *)
(*                                                                         *)
(* Text is modelled at the level of words.  A line is a sequence of        *)
(* tokens; two neighbouring tokens are separated by one space, and the     *)
(* token GAP stands for a run of two spaces.  What a regular expression    *)
(* of the source decides about the characters of one token is given by     *)
(* the lexical sets below, which list the tokens of the vocabulary that    *)
(* have the property.  Amounts are held in hundredths.                     *)
(***************************************************************************)
EXTENDS Integers, Sequences, FiniteSets, TLC

\* ------------------------------------------------------------ bounds

\* Lines of one document (one parseText call).
MaxLines == 3
\* parseText calls made on the parser in one process.
MaxRuns == 2

\* --------------------------------------------------------- the states

Header == "header"
TransactionLines == "transaction-lines"
End == "end"
State == {Header, TransactionLines, End}

Revisions == {"A", "B", "C", "D"}
\* The revisions that keep the module-level pendingTransaction.
PendingRevisions == {"B", "C"}

\* ------------------------------------------------------ lexical sets

GAP == "  "

\* Tokens that match ^\d{2}$.
Digits2 == {"01", "02", "03", "31", "99"}
\* Tokens that match ^\d{4}$ (no token of the vocabulary starts with four
\* digits and goes on).
Digits4 == {"2024", "1924"}
\* Tokens that match ^\d+$.
DigitsOnly == Digits2 \cup Digits4 \cup {"7"}
\* Tokens that match ^\w{3}$.
Word3 == {"JAN", "XXX", "POS", "AED", "DOE", "VAT"}
\* Tokens that match ^[A-Z]{3}$.
Upper3 == {"JAN", "XXX", "POS", "AED", "DOE", "VAT"}
\* Tokens that match ^[A-Z]+$.
UpperWord == Upper3 \cup {"JOHN", "DATE", "VALUE", "DESCRIPTION", "DEBIT", "CREDIT",
                          "BALANCE", "STORE", "DUBAI", "FROM", "TO"}
\* Tokens that match ^[\d,]+\.?\d*$.
NumberToken == DigitsOnly \cup {"150.00", "9,850.00", "0.00", "0.75", "3,500.00",
                                "18,350.00", "18,760.95", "10,000.00", ","}
\* The account numbers: tokens that match ^\d{3}-\d{3}-\d{7}-\d{2}-\d$.
AccountToken == {"123-456-7890123-45-6", "987-654-3210987-65-4"}

\* The months table of parseDate.
months == [t \in {"JAN", "FEB", "MAR", "APR", "MAY", "JUN", "JUL", "AUG", "SEP", "OCT",
                  "NOV", "DEC"} |->
             CASE t = "JAN" -> 1 [] t = "FEB" -> 2 [] t = "MAR" -> 3 [] t = "APR" -> 4
               [] t = "MAY" -> 5 [] t = "JUN" -> 6 [] t = "JUL" -> 7 [] t = "AUG" -> 8
               [] t = "SEP" -> 9 [] t = "OCT" -> 10 [] t = "NOV" -> 11 [] t = "DEC" -> 12]

\* The number a token of digits reads as.
DigitsValue(t) ==
    CASE t = "01" -> 1 [] t = "02" -> 2 [] t = "03" -> 3 [] t = "31" -> 31
      [] t = "99" -> 99 [] t = "2024" -> 2024 [] t = "1924" -> 1924 [] t = "7" -> 7
      \* the numbers inside the account numbers
      [] t = "123" -> 123 [] t = "456" -> 456 [] t = "7890123" -> 7890123
      [] t = "45" -> 45 [] t = "6" -> 6 [] t = "987" -> 987 [] t = "654" -> 654
      [] t = "3210987" -> 3210987 [] t = "65" -> 65 [] t = "4" -> 4

\* toLowerCase of a token.
toLowerCase(t) ==
    CASE t = "DATE" -> "date" [] t = "VALUE" -> "value"
      [] t = "DESCRIPTION" -> "description" [] t = "DEBIT" -> "debit"
      [] t = "CREDIT" -> "credit" [] t = "BALANCE" -> "balance"
      [] t = "Closing" -> "closing" [] t = "Book" -> "book"
      [] t = "Balance" -> "balance" [] t = "Transfer" -> "transfer"
      [] t = "From" -> "from" [] t = "Salary" -> "salary"
      [] t = "POS" -> "pos" [] t = "Settlement" -> "settlement"
      [] t = "STORE" -> "store" [] t = "DUBAI" -> "dubai" [] t = "AED" -> "aed"
      [] t = "JAN" -> "jan" [] t = "XXX" -> "xxx" [] t = "JOHN" -> "john"
      [] t = "DOE" -> "doe" [] t = "AC-NUM" -> "ac-num" [] t = "VAT" -> "vat"
      [] t = "Account" -> "account" [] t = "Statement" -> "statement"
      [] t = "FROM" -> "from" [] t = "TO" -> "to" [] t = "Dubai" -> "dubai"
      [] t = "Marina" -> "marina" [] t = "Sheet" -> "sheet"
      [] t = "END" -> "end" [] t = "INNER" -> "inner" [] t = "STATE" -> "state"
      [] t = "End" -> "end" [] t = "Inner" -> "inner" [] t = "State" -> "state"
      [] OTHER -> t

\* The hundredths parseFloat(removeCommasFromNumberString(t)) reads from a
\* number token; "," reads as NaN, which NumberValue does not cover.
NumberValue(t) ==
    CASE t = "150.00" -> 15000 [] t = "9,850.00" -> 985000 [] t = "0.00" -> 0
      [] t = "0.75" -> 75 [] t = "3,500.00" -> 350000 [] t = "18,350.00" -> 1835000
      [] t = "18,760.95" -> 1876095 [] t = "10,000.00" -> 1000000
      [] OTHER -> 100 * DigitsValue(t)

\* The first match of [\d,]+\.?\d* inside a token; "" when the token has
\* neither a digit nor a comma.
FirstNumberIn(t) ==
    CASE t \in NumberToken -> t
      [] t = "123-456-7890123-45-6" -> "123"
      [] t = "987-654-3210987-65-4" -> "987"
      [] OTHER -> ""

\* The match of [\d,]+\.?\d*$ at the end of a token; "" when there is none.
LastNumberIn(t) ==
    CASE t \in NumberToken -> t
      [] t = "123-456-7890123-45-6" -> "6"
      [] t = "987-654-3210987-65-4" -> "4"
      [] OTHER -> ""

\* The digits after the last dash of an account number.
AccountSuffix(t) ==
    CASE t = "123-456-7890123-45-6" -> "6" [] t = "987-654-3210987-65-4" -> "4"

\* ------------------------------------------------------------ values

\* A JavaScript number in hundredths, NaN, or undefined.
Number(c) == [kind |-> "number", cents |-> c]
NaN == [kind |-> "nan", cents |-> 0]
UndefinedAmount == [kind |-> "undefined", cents |-> 0]

MathAbs(a) == IF a.kind = "number" /\ a.cents < 0 THEN Number(0 - a.cents) ELSE a
Negate(a) == IF a.kind = "number" THEN Number(0 - a.cents) ELSE a
\* a > 0 in JavaScript: false for NaN and for undefined.
GreaterThanZero(a) == a.kind = "number" /\ a.cents > 0
\* !a in JavaScript: true for undefined, NaN, 0 and -0.
Falsy(a) == a.kind # "number" \/ a.cents = 0

\* A Date, or undefined.
UndefinedDate == [valid |-> FALSE, year |-> 0, month |-> 0, day |-> 0]

\* ------------------------------------------------------- line helpers

RECURSIVE trimStart(_)
trimStart(line) ==
    IF line # <<>> /\ Head(line) = GAP THEN trimStart(Tail(line)) ELSE line

RECURSIVE trimEnd(_)
trimEnd(line) ==
    IF line # <<>> /\ line[Len(line)] = GAP
    THEN trimEnd(SubSeq(line, 1, Len(line) - 1))
    ELSE line

\* String.prototype.trim.
trim(line) == trimEnd(trimStart(line))

\* line.replace(/\s+/g, ' ').trim(): every run of spaces becomes one space.
collapseSpaces(line) == SelectSeq(line, LAMBDA t : t # GAP)

lowerLine(line) == [k \in DOMAIN line |-> toLowerCase(line[k])]

\* String.prototype.includes for a phrase of words separated by one space.
includes(line, phrase) ==
    \E k \in 1..(Len(line) - Len(phrase) + 1) :
        SubSeq(line, k, k + Len(phrase) - 1) = phrase

startsWith(line, phrase) ==
    Len(line) >= Len(phrase) /\ SubSeq(line, 1, Len(phrase)) = phrase

\* String.prototype.length of a trimmed line: the characters of the tokens,
\* and one space between two neighbouring words.
RECURSIVE length(_)
length(line) ==
    IF line = <<>> THEN 0
    ELSE Len(Head(line))
         + (IF Len(line) >= 2 /\ Head(line) # GAP /\ line[2] # GAP THEN 1 ELSE 0)
         + length(Tail(line))

\* ^\d{2} \w{3} \d{4} at position k of a line.
IsDateAt(line, k) ==
    /\ k >= 1
    /\ Len(line) >= k + 2
    /\ line[k] \in Digits2
    /\ line[k + 1] \in Word3
    /\ line[k + 2] \in Digits4

\* ------------------------------------------------- parseDate, parseAmount

\* The error createDateFromUtcIsoFormat throws, where a date is expected.
InvalidDateError == [valid |-> FALSE, year |-> 0, month |-> 0, day |-> -1]

\* createDateFromUtcIsoFormat(`${year}-${month}-${day}`): it throws on a day
\* that is no day.
createDateFromUtcIsoFormat(year, month, day) ==
    IF day \in 1..31
    THEN [valid |-> TRUE, year |-> year, month |-> month, day |-> day]
    ELSE InvalidDateError

\* parseDate as it would be without its try and catch.
parseDateUncaught(dateString) ==
    IF Len(dateString) = 3 /\ dateString[2] \in DOMAIN months
    THEN createDateFromUtcIsoFormat(DigitsValue(dateString[3]), months[dateString[2]],
                                    DigitsValue(dateString[1]))
    ELSE UndefinedDate

parseDate(dateString) ==
    LET caught(made) == IF made = InvalidDateError THEN UndefinedDate ELSE made
    IN  IF Len(dateString) = 3 /\ dateString[2] \in DOMAIN months
        THEN caught(createDateFromUtcIsoFormat(DigitsValue(dateString[3]),
                                               months[dateString[2]],
                                               DigitsValue(dateString[1])))
        ELSE UndefinedDate

parseAmount(amountStr) ==
    IF amountStr = "," THEN NaN ELSE Number(NumberValue(amountStr))

\* ------------------------------------------------------ transactions

\* A ParsedTransaction; amount is UndefinedAmount while the transaction is
\* a Partial<ParsedTransaction> that has no amount yet.
Transaction(date, description, amount, originalText) ==
    [date |-> date, description |-> description, amount |-> amount,
     originalText |-> originalText]

\* undefined where a ParsedTransaction is expected, and the null of
\* pendingTransaction: every transaction has a line in originalText.
undefined == Transaction(UndefinedDate, <<>>, UndefinedAmount, <<>>)
null == undefined

\* The ParsedOutput a run starts from.
initOutput ==
    [name |-> <<>>, accountSuffix |-> "", yearPrefix |-> 0,
     startDate |-> UndefinedDate, endDate |-> UndefinedDate,
     incomes |-> <<>>, expenses |-> <<>>]

\* ---------------------------------------------------- nextState (A-D)

tableHeaderPhrase ==
    <<"date", "value", "date", "description", "debit", "credit", "balance">>

\* The test of case State.Header.
startsTransactions(r, cleanLine) ==
    \/ includes(cleanLine, tableHeaderPhrase)
    \/ /\ r = "D"
       /\ includes(cleanLine, <<"balance">>)
       /\ \/ includes(cleanLine, <<"opening">>)
          \/ includes(cleanLine, <<"brought", "forward">>)

\* The test of case State.TransactionLines.
endsTransactions(r, cleanLine) ==
    \/ includes(cleanLine, <<"closing", "book", "balance">>)
    \/ r # "A" /\ includes(cleanLine, <<"closing", "statement", "balance">>)
    \/ includes(cleanLine, <<"end", "of", "statement">>)
    \/ includes(cleanLine, <<"total", "debit", "txns">>)
    \/ includes(cleanLine, <<"total">>) /\ includes(cleanLine, <<"txns">>)

\* nextState as it would be if a repeated table header reopened the table
\* after the closing line.
nextStateReopens(r, currentState, line) ==
    LET cleanLine == trim(lowerLine(line))
    IN  CASE currentState = Header ->
               IF startsTransactions(r, cleanLine) THEN TransactionLines ELSE Header
          [] currentState = TransactionLines ->
               IF endsTransactions(r, cleanLine) THEN End ELSE TransactionLines
          [] currentState = End ->
               IF startsTransactions(r, cleanLine) THEN TransactionLines ELSE End

nextState(r, currentState, line) ==
    LET cleanLine == trim(lowerLine(line))
    IN  CASE currentState = Header ->
               IF startsTransactions(r, cleanLine) THEN TransactionLines ELSE Header
          [] currentState = TransactionLines ->
               IF endsTransactions(r, cleanLine) THEN End ELSE TransactionLines
          [] currentState = End -> End

\* --------------------------------------------- extractAccountInfo (A-D)

\* accountNumberRegExp: the place of the first "AC-NUM ddd-ddd-ddddddd-dd-d",
\* 0 when the line has none.
accountMatch(line) ==
    LET at == {k \in 1..(Len(line) - 1) :
                 line[k] = "AC-NUM" /\ line[k + 1] \in AccountToken}
    IN  IF at = {} THEN 0 ELSE CHOOSE k \in at : \A j \in at : k <= j

\* customerNameRegExp, trimmed: the upper-case words before the first
\* AC-NUM of the line, <<>> when the line does not start with such words.
nameMatch(line) ==
    LET at == {k \in 1..Len(line) : line[k] = "AC-NUM"}
        p  == IF at = {} THEN 0 ELSE CHOOSE k \in at : \A j \in at : k <= j
    IN  IF p >= 2 /\ \A k \in 1..(p - 1) : line[k] \in UpperWord \cup {GAP}
        THEN trim(SubSeq(line, 1, p - 1))
        ELSE <<>>

\* statementPeriodRegExp: the place of the first
\* "Account Statement FROM dd www dddd TO dd www dddd", 0 when there is none.
periodMatch(line) ==
    LET at == {k \in 1..(Len(line) - 9) :
                 /\ SubSeq(line, k, k + 2) = <<"Account", "Statement", "FROM">>
                 /\ IsDateAt(line, k + 3)
                 /\ line[k + 6] = "TO"
                 /\ IsDateAt(line, k + 7)}
    IN  IF at = {} THEN 0 ELSE CHOOSE k \in at : \A j \in at : k <= j

\* Math.floor(startDate.getFullYear() / 100)
yearPrefixOf(date) == date.year \div 100

extractAccountInfo(r, line, output) ==
    LET accountInfo(a, n) ==
            IF a = 0 THEN output
            ELSE [output EXCEPT !.accountSuffix = AccountSuffix(line[a + 1]),
                                !.name = IF n # <<>> THEN n ELSE @]
        periodInfo(out1, startDate, endDate) ==
            IF r = "D"
            THEN [out1 EXCEPT !.startDate = IF startDate.valid THEN startDate ELSE @,
                              !.yearPrefix = IF startDate.valid
                                             THEN yearPrefixOf(startDate) ELSE @,
                              !.endDate = IF endDate.valid THEN endDate ELSE @]
            ELSE [out1 EXCEPT !.startDate = startDate,
                              !.endDate = endDate,
                              !.yearPrefix = IF startDate.valid
                                             THEN yearPrefixOf(startDate) ELSE @]
        statementPeriod(out1, p) ==
            IF p = 0 THEN out1
            ELSE periodInfo(out1, parseDate(SubSeq(line, p + 3, p + 5)),
                            parseDate(SubSeq(line, p + 7, p + 9)))
    IN  statementPeriod(accountInfo(accountMatch(line), nameMatch(line)),
                        periodMatch(line))

\* ------------------------------------------------ transaction patterns

\* What String.prototype.match returns: the groups the code reads, or
\* matched = FALSE for null.
NoMatch ==
    [matched |-> FALSE, dateStr |-> <<>>, description |-> <<>>, amountStr |-> "",
     balanceStr |-> ""]

\* /^\d{2} \w{3} \d{4}/ on a line whose spaces are collapsed.
startsWithDate(cleanLine) == IsDateAt(cleanLine, 1)

\* /^(\d{2} \w{3} \d{4})\s+(\d{2} \w{3} \d{4})\s+(.+?)\s+([\d,]+\.?\d*)\s+([\d,]+\.?\d*)$/
\* The two numbers are the last two tokens, whole; the lazy description is
\* what lies between the second date and them, and is not empty.
standardPattern(cleanLine) ==
    LET n == Len(cleanLine)
    IN  IF /\ n >= 9
           /\ IsDateAt(cleanLine, 1)
           /\ IsDateAt(cleanLine, 4)
           /\ cleanLine[n - 1] \in NumberToken
           /\ cleanLine[n] \in NumberToken
        THEN [matched |-> TRUE, dateStr |-> SubSeq(cleanLine, 1, 3),
              description |-> SubSeq(cleanLine, 7, n - 2),
              amountStr |-> cleanLine[n - 1], balanceStr |-> cleanLine[n]]
        ELSE NoMatch

\* description.match(/([\d,]+\.?\d*)/): the first number in a text, "" when
\* the text has none.
RECURSIVE firstNumber(_)
firstNumber(text) ==
    IF text = <<>> THEN ""
    ELSE IF FirstNumberIn(Head(text)) # "" THEN FirstNumberIn(Head(text))
    ELSE firstNumber(Tail(text))

\* ----------------------------------------------------------- revision A

\* The income test of parseTransaction, pattern 1.
isIncomeA(desc) ==
    LET lowerDesc == lowerLine(desc)
    IN  \/ includes(lowerDesc, <<"transfer">>)
        \/ includes(lowerDesc, <<"inward">>)
        \/ includes(lowerDesc, <<"deposit">>)
        \/ includes(lowerDesc, <<"reverse", "charges">>)
        \/ includes(lowerDesc, <<"atm", "cash", "deposit">>)
        \/ includes(lowerDesc, <<"cash", "deposit">>)

\* fullDesc.replace(/\s+[\d,]+\.?\d*.*$/, ''): the text before its first
\* word, after the first, that starts with a digit or a comma.
RECURSIVE beforeNumber(_, _)
beforeNumber(text, k) ==
    IF k > Len(text) THEN text
    ELSE IF k >= 2 /\ text[k] \in NumberToken \cup AccountToken
    THEN SubSeq(text, 1, k - 1)
    ELSE beforeNumber(text, k + 1)

parseTransactionA(line) ==
    LET cleanLine     == collapseSpaces(line)
        regularMatch  == standardPattern(cleanLine)
        date          == parseDate(regularMatch.dateStr)
        amount        == parseAmount(regularMatch.amountStr)
        desc          == regularMatch.description
        \* Pattern 2 is the same expression as pattern 1.
        depositMatch  == standardPattern(cleanLine)
        amountInDesc  == firstNumber(depositMatch.description)
        depositDesc   == beforeNumber(depositMatch.description, 1)
        depositWords  == lowerLine(depositDesc)
    IN  IF ~startsWithDate(cleanLine) THEN undefined
        ELSE IF regularMatch.matched /\ date.valid
        THEN Transaction(date, desc,
                         IF isIncomeA(desc) THEN MathAbs(amount)
                         ELSE Negate(MathAbs(amount)),
                         <<line>>)
        ELSE IF /\ depositMatch.matched
                /\ amountInDesc # ""
                /\ parseDate(depositMatch.dateStr).valid
                /\ \/ includes(depositWords, <<"deposit">>)
                   \/ includes(depositWords, <<"transfer">>)
                   \/ includes(depositWords, <<"inward">>)
                   \/ includes(depositWords, <<"cash", "deposit">>)
        THEN Transaction(parseDate(depositMatch.dateStr), depositDesc,
                         MathAbs(parseAmount(amountInDesc)), <<line>>)
        ELSE undefined

\* A push that puts the transaction in front of the recorded ones.
unshiftTransaction(output, transaction) ==
    IF transaction = undefined THEN output
    ELSE IF GreaterThanZero(transaction.amount)
    THEN [output EXCEPT !.incomes = <<transaction>> \o @]
    ELSE [output EXCEPT !.expenses = <<transaction>> \o @]

\* output.incomes.push / output.expenses.push by the sign of the amount.
pushTransaction(output, transaction) ==
    IF transaction = undefined THEN output
    ELSE IF GreaterThanZero(transaction.amount)
    THEN [output EXCEPT !.incomes = Append(@, transaction)]
    ELSE [output EXCEPT !.expenses = Append(@, transaction)]

\* The first two statements of performStateAction, the same in A-D.
headerAction(r, cleanLine, output, parserOptions) ==
    LET yearPrefixDefault(out) ==
            IF out.yearPrefix = 0
            THEN [out EXCEPT !.yearPrefix = parserOptions.yearPrefix]
            ELSE out
    IN  yearPrefixDefault(extractAccountInfo(r, cleanLine, output))

skipLineA(cleanLine) ==
    \/ includes(cleanLine, <<"DATE", "VALUE", "DATE", "DESCRIPTION">>)
    \/ includes(cleanLine, <<"Balance", "carried", "forward">>)
    \/ includes(cleanLine, <<"Balance", "brought", "forward">>)
    \/ startsWith(cleanLine, <<"Sheet", "no.">>)
    \/ includes(cleanLine, <<"Important:">>)
    \/ length(cleanLine) < 10

\* performStateAction returns the output; the model returns it with the
\* module-level pendingTransaction the call leaves behind.
\* performStateAction as it would be if it parsed transactions in every
\* state after Header.
actsAfterEnd(currentState, line, output, parserOptions, pending) ==
    LET act(cleanLine, out) ==
            [output  |-> IF currentState # Header /\ ~skipLineA(cleanLine)
                         THEN pushTransaction(out, parseTransactionA(cleanLine))
                         ELSE out,
             pending |-> pending]
    IN  act(trim(line), headerAction("A", trim(line), output, parserOptions))

\* performStateAction as it would be if it parsed transactions before the
\* table-header line as well.
actsInHeader(currentState, line, output, parserOptions, pending) ==
    LET act(cleanLine, out) ==
            [output  |-> IF currentState # End /\ ~skipLineA(cleanLine)
                         THEN pushTransaction(out, parseTransactionA(cleanLine))
                         ELSE out,
             pending |-> pending]
    IN  act(trim(line), headerAction("A", trim(line), output, parserOptions))

performStateActionA(currentState, line, output, parserOptions, pending) ==
    LET act(cleanLine, out) ==
            [output  |-> IF currentState = TransactionLines /\ ~skipLineA(cleanLine)
                         THEN pushTransaction(out, parseTransactionA(cleanLine))
                         ELSE out,
             pending |-> pending]
    IN  act(trim(line), headerAction("A", trim(line), output, parserOptions))

\* ------------------------------------------- revisions B and C, shared

\* isIncomeTransaction
isIncomeTransaction(description) ==
    LET lowerDesc == lowerLine(description)
    IN  \/ includes(lowerDesc, <<"transfer">>)
        \/ includes(lowerDesc, <<"inward">>)
        \/ includes(lowerDesc, <<"deposit">>)
        \/ includes(lowerDesc, <<"reverse", "charges">>)
        \/ includes(lowerDesc, <<"atm", "cash", "deposit">>)
        \/ includes(lowerDesc, <<"cash", "deposit">>)
        \/ includes(lowerDesc, <<"credit">>)

\* Math.abs(amount) for an income, -Math.abs(amount) otherwise.
signedAmount(amount, description) ==
    IF isIncomeTransaction(description) THEN MathAbs(amount)
    ELSE Negate(MathAbs(amount))

\* Pattern 2: ... (.+?)\s+[A-Z]{3}\s+([\d,]+\.?\d*)\s+([\d,]+\.?\d*)$
currencyPattern(cleanLine) ==
    LET n == Len(cleanLine)
    IN  IF /\ n >= 10
           /\ IsDateAt(cleanLine, 1)
           /\ IsDateAt(cleanLine, 4)
           /\ cleanLine[n - 2] \in Upper3
           /\ cleanLine[n - 1] \in NumberToken
           /\ cleanLine[n] \in NumberToken
        THEN [matched |-> TRUE, dateStr |-> SubSeq(cleanLine, 1, 3),
              description |-> SubSeq(cleanLine, 7, n - 3),
              amountStr |-> cleanLine[n - 1], balanceStr |-> cleanLine[n]]
        ELSE NoMatch

\* Pattern 4: ... (POS Settlement VAT AED)\s+(number)\s+(number)\s+(number)$,
\* read as i === 3 reads it: amount match[4], balance match[6].
vatPattern(cleanLine) ==
    IF /\ Len(cleanLine) = 13
       /\ IsDateAt(cleanLine, 1)
       /\ IsDateAt(cleanLine, 4)
       /\ SubSeq(cleanLine, 7, 10) = <<"POS", "Settlement", "VAT", "AED">>
       /\ \A k \in 11..13 : cleanLine[k] \in NumberToken
    THEN [matched |-> TRUE, dateStr |-> SubSeq(cleanLine, 1, 3),
          description |-> SubSeq(cleanLine, 7, 10),
          amountStr |-> cleanLine[11], balanceStr |-> cleanLine[13]]
    ELSE NoMatch

\* Pattern 5: ... (Switch Transaction|SW WDL Chgs|ATM Cash Deposit)\s+(number)\s+(number)$
switchPattern(cleanLine) ==
    LET n == Len(cleanLine)
    IN  IF /\ n >= 10
           /\ IsDateAt(cleanLine, 1)
           /\ IsDateAt(cleanLine, 4)
           /\ SubSeq(cleanLine, 7, n - 2) \in
                 {<<"Switch", "Transaction">>, <<"SW", "WDL", "Chgs">>,
                  <<"ATM", "Cash", "Deposit">>}
           /\ cleanLine[n - 1] \in NumberToken
           /\ cleanLine[n] \in NumberToken
        THEN [matched |-> TRUE, dateStr |-> SubSeq(cleanLine, 1, 3),
              description |-> SubSeq(cleanLine, 7, n - 2),
              amountStr |-> cleanLine[n - 1], balanceStr |-> cleanLine[n]]
        ELSE NoMatch

\* A list of the patterns that has the VAT pattern first.
vatPatternFirst(cleanLine) ==
    <<vatPattern(cleanLine), standardPattern(cleanLine), currencyPattern(cleanLine),
      standardPattern(cleanLine), switchPattern(cleanLine)>>

\* transactionPatterns, each applied to the line.
transactionPatterns(cleanLine) ==
    <<standardPattern(cleanLine), currencyPattern(cleanLine),
      standardPattern(cleanLine), vatPattern(cleanLine), switchPattern(cleanLine)>>

\* The loop over transactionPatterns: the transaction of the first pattern
\* that matches with a date parseDate accepts, undefined when none does.
matchPatterns(cleanLine, originalLine) ==
    LET transactionOf(match) ==
            Transaction(parseDate(match.dateStr), match.description,
                        signedAmount(parseAmount(match.amountStr), match.description),
                        <<originalLine>>)
        firstOf(m, hits) ==
            IF hits = {} THEN undefined
            ELSE transactionOf(m[CHOOSE h \in hits : \A j \in hits : h <= j])
        tryEach(m) ==
            firstOf(m, {i \in DOMAIN m : m[i].matched /\ parseDate(m[i].dateStr).valid})
    IN  tryEach(transactionPatterns(cleanLine))

\* /^(\d{2} \w{3} \d{4})\s+(\d{2} \w{3} \d{4})\s+(.+)$/ with a date parseDate
\* accepts: the transaction without amount, undefined otherwise.
incompleteMatch(cleanLine, originalLine) ==
    IF /\ Len(cleanLine) >= 7
       /\ IsDateAt(cleanLine, 1)
       /\ IsDateAt(cleanLine, 4)
       /\ parseDate(SubSeq(cleanLine, 1, 3)).valid
    THEN Transaction(parseDate(SubSeq(cleanLine, 1, 3)),
                     SubSeq(cleanLine, 7, Len(cleanLine)), UndefinedAmount,
                     <<originalLine>>)
    ELSE undefined

\* description.match(/([\d,]+\.?\d*)\s*$/): the number a text ends with, ""
\* when it ends with none.
lastNumber(text) == IF text = <<>> THEN "" ELSE LastNumberIn(text[Len(text)])

\* A skip list without the lines of a page break.
skipsFooterOnly(cleanLine) ==
    \/ startsWith(cleanLine, <<"Sheet", "no.">>)
    \/ includes(cleanLine, <<"Important:">>)
    \/ includes(cleanLine, <<"T&Cs", "Apply">>)
    \/ includes(cleanLine, <<"First", "Abu", "Dhabi", "Bank">>)
    \/ includes(cleanLine, <<"Contact", "Centre">>)
    \/ includes(cleanLine, <<"endeavor", "to", "get", "back">>)
    \/ length(cleanLine) < 5

\* The skip list of performStateAction in revisions B and C.
skipLineBC(cleanLine) ==
    \/ includes(cleanLine, <<"DATE", "VALUE", "DATE", "DESCRIPTION">>)
    \/ includes(cleanLine, <<"Balance", "carried", "forward">>)
    \/ includes(cleanLine, <<"Balance", "brought", "forward">>)
    \/ startsWith(cleanLine, <<"Sheet", "no.">>)
    \/ includes(cleanLine, <<"Important:">>)
    \/ includes(cleanLine, <<"T&Cs", "Apply">>)
    \/ includes(cleanLine, <<"First", "Abu", "Dhabi", "Bank">>)
    \/ includes(cleanLine, <<"Contact", "Centre">>)
    \/ includes(cleanLine, <<"endeavor", "to", "get", "back">>)
    \* /^[\u0600-\u06FF\s]+$/: the vocabulary has no Arabic word, so only
    \* a line of spaces matches, and a trimmed line has none.
    \/ (cleanLine # <<>> /\ \A k \in DOMAIN cleanLine : cleanLine[k] = GAP)
    \/ length(cleanLine) < 5
    \/ (Len(cleanLine) = 1 /\ cleanLine[1] \in DigitsOnly)

\* ----------------------------------------------------------- revision B

\* completePendingTransaction: what it returns and the pendingTransaction
\* it leaves.  The balance is the number the description ends with, the
\* amount the number right before it.
completePendingTransaction(pending) ==
    LET description   == pending.description
        n             == Len(description)
        balanceStr    == lastNumber(description)
        \* description.substring(0, description.lastIndexOf(balanceStr)): a
        \* balance that is a whole word leaves the words before it; one that
        \* ends an account number leaves text that ends with a dash.
        amountStr     == IF description[n] \in NumberToken
                         THEN lastNumber(SubSeq(description, 1, n - 1))
                         ELSE ""
    IN  IF pending = null \/ description = <<>>
        THEN [transaction |-> undefined, pending |-> pending]
        ELSE IF balanceStr # "" /\ amountStr # ""
        THEN [transaction |->
                  Transaction(pending.date, description,
                              signedAmount(parseAmount(amountStr), description),
                              pending.originalText),
              pending |-> null]
        ELSE [transaction |-> undefined, pending |-> pending]

\* parseNewTransaction
parseNewTransaction(cleanLine, originalLine) ==
    LET orIncomplete(matched) ==
            IF matched # undefined THEN matched
            ELSE incompleteMatch(cleanLine, originalLine)
    IN  orIncomplete(matchPatterns(cleanLine, originalLine))

\* parseTransaction of revision B: what it returns and the
\* pendingTransaction it leaves.
parseTransactionB(line, pending) ==
    LET continued == [pending EXCEPT !.description = @ \o collapseSpaces(line)]
        parse(cleanLine, newTransaction, completed) ==
            IF ~startsWithDate(cleanLine) /\ pending # null
            THEN \* a continuation line: the completed transaction is not returned
                 [transaction |-> undefined,
                  pending |-> completePendingTransaction(continued).pending]
            ELSE IF pending # null /\ startsWithDate(cleanLine)
            THEN [transaction |-> completed.transaction,
                  pending |-> IF /\ newTransaction # undefined
                                 /\ newTransaction.amount = UndefinedAmount
                              THEN newTransaction
                              ELSE completed.pending]
            ELSE IF ~startsWithDate(cleanLine)
            THEN [transaction |-> undefined, pending |-> pending]
            ELSE IF newTransaction = undefined
            THEN [transaction |-> undefined, pending |-> pending]
            ELSE IF newTransaction.amount # UndefinedAmount
            THEN [transaction |-> newTransaction, pending |-> pending]
            ELSE [transaction |-> undefined, pending |-> newTransaction]
    IN  parse(collapseSpaces(line), parseNewTransaction(collapseSpaces(line), line),
              completePendingTransaction(pending))

\* The block "Complete any pending transaction when leaving
\* TransactionLines state" of performStateAction.
flushPending(output, pending) ==
    LET amountStr == firstNumber(pending.description)
        flushed   == IF /\ pending.description # <<>>
                        /\ Falsy(pending.amount)
                        /\ amountStr # ""
                     THEN [pending EXCEPT !.amount =
                              signedAmount(parseAmount(amountStr), pending.description)]
                     ELSE pending
    IN  IF flushed.amount # UndefinedAmount
        THEN pushTransaction(output, flushed)
        ELSE output

performStateActionB(currentState, line, output, parserOptions, pending) ==
    LET act(cleanLine, out, parsed) ==
            IF currentState = TransactionLines
            THEN IF skipLineBC(cleanLine)
                 THEN [output |-> out, pending |-> pending]
                 ELSE [output  |-> pushTransaction(out, parsed.transaction),
                       pending |-> parsed.pending]
            ELSE IF currentState = End /\ pending # null
            THEN [output |-> flushPending(out, pending), pending |-> null]
            ELSE [output |-> out, pending |-> pending]
    IN  act(trim(line), headerAction("B", trim(line), output, parserOptions),
            parseTransactionB(trim(line), pending))

\* ----------------------------------------------------------- revision C

\* The continuation branch of parseTransaction in revision C.
continuePendingC(cleanLine, pending) ==
    LET description == pending.description \o cleanLine
        amountStr   == firstNumber(description)
        amount      == IF Falsy(pending.amount) /\ amountStr # ""
                       THEN signedAmount(parseAmount(amountStr), description)
                       ELSE pending.amount
        completed   == [pending EXCEPT !.description = description, !.amount = amount]
    IN  IF lastNumber(cleanLine) = ""
        THEN [transaction |-> undefined,
              pending |-> [pending EXCEPT !.description = description]]
        ELSE IF amount # UndefinedAmount
        THEN [transaction |-> completed, pending |-> null]
        ELSE [transaction |-> undefined, pending |-> completed]

\* The pendingTransaction a transaction line without amount and balance
\* starts in revision C.
startPendingC(cleanLine, line) ==
    LET started   == incompleteMatch(cleanLine, line)
        amountStr == firstNumber(started.description)
    IN  IF amountStr = "" THEN started
        ELSE [started EXCEPT !.amount =
                 signedAmount(parseAmount(amountStr), started.description)]

parseTransactionC(line, pending) ==
    LET parse(cleanLine, matched) ==
            IF ~startsWithDate(cleanLine) /\ pending # null
            THEN continuePendingC(cleanLine, pending)
            ELSE IF ~startsWithDate(cleanLine)
            THEN [transaction |-> undefined, pending |-> pending]
            ELSE IF matched # undefined
            THEN [transaction |-> matched, pending |-> pending]
            ELSE IF incompleteMatch(cleanLine, line) # undefined
            THEN [transaction |-> undefined, pending |-> startPendingC(cleanLine, line)]
            ELSE [transaction |-> undefined, pending |-> pending]
    IN  parse(collapseSpaces(line), matchPatterns(collapseSpaces(line), line))

performStateActionC(currentState, line, output, parserOptions, pending) ==
    LET act(cleanLine, out, parsed) ==
            IF currentState = TransactionLines /\ ~skipLineBC(cleanLine)
            THEN [output  |-> pushTransaction(out, parsed.transaction),
                  pending |-> parsed.pending]
            ELSE [output |-> out, pending |-> pending]
    IN  act(trim(line), headerAction("C", trim(line), output, parserOptions),
            parseTransactionC(trim(line), pending))

\* ----------------------------------------------------------- revision D

\* Every match of /[\d,]+\.?\d*/g inside a token.
AllNumbersIn(t) ==
    CASE t \in NumberToken -> <<t>>
      [] t = "123-456-7890123-45-6" -> <<"123", "456", "7890123", "45", "6">>
      [] t = "987-654-3210987-65-4" -> <<"987", "654", "3210987", "65", "4">>
      [] OTHER -> <<>>

\* cleanLine.match(/[\d,]+\.?\d*/g)
RECURSIVE allNumbers(_)
allNumbers(text) ==
    IF text = <<>> THEN <<>> ELSE AllNumbersIn(Head(text)) \o allNumbers(Tail(text))

\* The lines parseTransactionLine returns undefined for at once.
skipLineD(cleanLine) ==
    \/ cleanLine = <<>>
    \/ includes(cleanLine, <<"Balance", "carried", "forward">>)
    \/ includes(cleanLine, <<"Balance", "brought", "forward">>)
    \/ includes(cleanLine, <<"Important:">>)
    \/ includes(cleanLine, <<"T&Cs", "Apply">>)
    \/ includes(cleanLine, <<"First", "Abu", "Dhabi", "Bank">>)
    \/ includes(cleanLine, <<"Contact", "Centre">>)
    \/ includes(cleanLine, <<"endeavor", "to", "get", "back">>)
    \/ includes(cleanLine, <<"DATE", "VALUE", "DATE", "DESCRIPTION">>)
    \/ startsWith(cleanLine, <<"Sheet", "no.">>)
    \/ (Len(cleanLine) = 1 /\ cleanLine[1] \in DigitsOnly)
    \/ includes(cleanLine, <<"Closing", "Book", "Balance">>)
    \/ includes(cleanLine, <<"Closing", "Statement", "Balance">>)
    \/ includes(cleanLine, <<"Total", "Debit", "Txns">>)
    \/ includes(cleanLine, <<"Tot.", "Debit", "Amnt">>)
    \/ includes(cleanLine, <<"Total", "Credit", "Txns">>)
    \/ includes(cleanLine, <<"Tot.", "Credit", "Amnt">>)
    \/ includes(cleanLine, <<"Debit", "Interest">>)
    \/ includes(cleanLine, <<"Opening", "balance">>)
    \/ lowerLine(cleanLine) = <<"account", "statement">>
    \/ lowerLine(cleanLine) = <<"currency", "aed">>
    \/ includes(cleanLine, <<"PO", "Box">>)
    \/ includes(cleanLine, <<"Dubai", "Creek">>)
    \/ includes(cleanLine, <<"Dubai,ARE">>)

\* /POS Settlement|Transfer|Payment|ATM|Deposit|Withdrawal|Charges|VAT|Switch|Reverse|Inward|Outward/i
hasTransactionKeywords(cleanLine) ==
    LET lowerText == lowerLine(cleanLine)
    IN  \/ includes(lowerText, <<"pos", "settlement">>)
        \/ \E w \in {"transfer", "payment", "atm", "deposit", "withdrawal", "charges",
                     "vat", "switch", "reverse", "inward", "outward"} :
               includes(lowerText, <<w>>)

\* .replace(/\d{2} \w{3} \d{4}\s*/, ''): the text without its first date.
removeDate(text) ==
    LET at == {k \in 1..Len(text) : IsDateAt(text, k)}
        k  == CHOOSE j \in at : \A i \in at : j <= i
    IN  IF at = {} THEN text
        ELSE SubSeq(text, 1, k - 1) \o SubSeq(text, k + 3, Len(text))

\* .replace(/[\d,]+\.?\d*\s*$/, ''): the text without the number it ends with.
removeLastNumber(text) ==
    LET n == Len(text)
    IN  IF n = 0 \/ lastNumber(text) = "" THEN text
        ELSE IF text[n] \in NumberToken THEN SubSeq(text, 1, n - 1)
        ELSE IF text[n] = "123-456-7890123-45-6"
        THEN SubSeq(text, 1, n - 1) \o <<"123-456-7890123-45-">>
        ELSE SubSeq(text, 1, n - 1) \o <<"987-654-3210987-65-">>

\* The "alternative pattern" of parseTransactionLine.
alternativePatternD(cleanLine) ==
    LET transactionDate == parseDate(SubSeq(cleanLine, 1, 3))
        numbers         == allNumbers(cleanLine)
        amount          == parseAmount(numbers[Len(numbers) - 1])
        balance         == parseAmount(numbers[Len(numbers)])
        description     == removeLastNumber(removeLastNumber(
                               removeDate(SubSeq(cleanLine, 4, Len(cleanLine)))))
    IN  IF /\ startsWithDate(cleanLine)
           \* hasAmount, /[\d,]+\.?\d+/: the day of the date is one
           /\ hasTransactionKeywords(cleanLine)
           /\ transactionDate.valid
           /\ Len(numbers) >= 2
           /\ description # <<>>
           /\ amount # NaN
           /\ balance # NaN
        THEN Transaction(transactionDate, description,
                         signedAmount(amount, description), <<cleanLine>>)
        ELSE undefined

parseTransactionLine(line) ==
    LET cleanLine == collapseSpaces(line)
        match     == standardPattern(cleanLine)
        date      == parseDate(match.dateStr)
        amount    == parseAmount(match.amountStr)
        balance   == parseAmount(match.balanceStr)
    IN  IF skipLineD(cleanLine) THEN undefined
        ELSE IF match.matched
        THEN IF ~date.valid \/ amount = NaN \/ balance = NaN THEN undefined
             ELSE Transaction(date, match.description,
                              signedAmount(amount, match.description), <<cleanLine>>)
        ELSE alternativePatternD(cleanLine)

\* performStateAction as it would be if it read the account information in
\* Header only.
extractsInHeaderOnly(currentState, line, output, parserOptions, pending) ==
    [output  |-> IF currentState = Header
                 THEN headerAction("D", trim(line), output, parserOptions)
                 ELSE IF currentState = TransactionLines
                 THEN pushTransaction(output, parseTransactionLine(trim(line)))
                 ELSE output,
     pending |-> pending]

performStateActionD(currentState, line, output, parserOptions, pending) ==
    LET act(cleanLine, out) ==
            [output  |-> IF currentState = TransactionLines
                         THEN pushTransaction(out, parseTransactionLine(cleanLine))
                         ELSE out,
             pending |-> pending]
    IN  act(trim(line), headerAction("D", trim(line), output, parserOptions))

\* ------------------------------------------------------ the plugin

\* fabBankAccountParser.action of revision r.
performStateAction(r, currentState, line, output, parserOptions, pending) ==
    CASE r = "A" -> performStateActionA(currentState, line, output, parserOptions, pending)
      [] r = "B" -> performStateActionB(currentState, line, output, parserOptions, pending)
      [] r = "C" -> performStateActionC(currentState, line, output, parserOptions, pending)
      [] r = "D" -> performStateActionD(currentState, line, output, parserOptions, pending)

\* ------------------------------------------------------- the lines

\* The lines a document is made of, as parseText receives them.
tableHeaderLine == <<"DATE", "VALUE", "DATE", "DESCRIPTION", "DEBIT", "CREDIT", "BALANCE">>
closingLine == <<"Closing", "Book", "Balance", "18,760.95">>
accountLine == <<"JOHN", "DOE", GAP, "AC-NUM", "123-456-7890123-45-6">>
periodLine ==
    <<"Account", "Statement", "FROM", "01", "JAN", "2024", "TO", "31", "JAN", "2024">>
expenseLine ==
    <<"01", "JAN", "2024", "01", "JAN", "2024", "POS", "Settlement", "STORE", "150.00",
      "9,850.00">>
incomeLine ==
    <<"03", "JAN", "2024", "03", "JAN", "2024", "Transfer", "From", "Salary", "3,500.00",
      "18,350.00">>
\* A transaction line whose amount column reads 0.00.
zeroLine ==
    <<"02", "JAN", "2024", "02", "JAN", "2024", "POS", "Settlement", "STORE", "0.00",
      "9,850.00">>
\* A transaction line whose amount and balance are on a later line.
startLine == <<"02", "JAN", "2024", "02", "JAN", "2024", "POS", "Settlement", "STORE">>
\* The later line: the rest of a description, the amount and the balance.
continuationLine == <<"DUBAI", "AED", "150.00", "9,850.00">>
\* A transaction line with nothing in its description column.
amountsOnlyLine == <<"01", "JAN", "2024", "01", "JAN", "2024", "150.00", "9,850.00">>
addressLine == <<"Dubai", "Marina", "Dubai">>
\* The statement-period line of a statement of another century.
periodLine1924 ==
    <<"Account", "Statement", "FROM", "01", "JAN", "1924", "TO", "31", "JAN", "1924">>
\* A statement-period line whose first date has a day that is no day.
badPeriodLine ==
    <<"Account", "Statement", "FROM", "99", "JAN", "2024", "TO", "31", "JAN", "2024">>
\* A card purchase whose merchant text holds the word Transfer.
posTransferLine ==
    <<"01", "JAN", "2024", "01", "JAN", "2024", "POS", "Settlement", "Transfer", "STORE",
      "150.00", "9,850.00">>
\* Transaction lines whose date is no date: a day that is no day, and a
\* month name that is not in the months table.
badDayLine ==
    <<"99", "JAN", "2024", "99", "JAN", "2024", "POS", "Settlement", "STORE", "150.00",
      "9,850.00">>
unknownMonthLine ==
    <<"01", "XXX", "2024", "01", "XXX", "2024", "POS", "Settlement", "STORE", "150.00",
      "9,850.00">>

\* A VAT line 'POS Settlement VAT AED a b c'.
vatLine ==
    <<"01", "JAN", "2024", "01", "JAN", "2024", "POS", "Settlement", "VAT", "AED", "0.75",
      "150.00", "9,850.00">>

\* A statement-period line whose month names are not in the months table.
unknownMonthPeriodLine ==
    <<"Account", "Statement", "FROM", "01", "XXX", "2024", "TO", "31", "XXX", "2024">>

\* The line a page of the transaction table ends with.
carriedForwardLine == <<"Balance", "carried", "forward", "9,850.00">>

LinePool ==
    {tableHeaderLine, closingLine, accountLine, periodLine, expenseLine, incomeLine,
     zeroLine, startLine, continuationLine, amountsOnlyLine, addressLine,
     periodLine1924, badPeriodLine, posTransferLine, badDayLine, unknownMonthLine,
     vatLine, carriedForwardLine, unknownMonthPeriodLine}

\* The values of parserOptions.yearPrefix: the default and an override.
YearPrefixes == {19, 20}

\* --------------------------------------------------------- the driver

\* A driver that computes the transition of a line before it calls the action.
transitionFirst(r, currentState, line) == nextState(r, currentState, line)

\* The state the driver hands to the action for a line: the state held
\* before the line; the transition comes after the action.
actionState(r, currentState, line) == currentState

\* A driver that stops reading when the machine has reached End.
stopsAtEnd(currentState, done, count) == done < count /\ currentState # End

\* The driver goes on while lines are left, whatever the state.
hasNextLine(currentState, done, count) == done < count

VARIABLES
    rev,                \* the revision of fab-bank-account-parser.ts
    parserOptions,      \* the options of every run of the process
    run,                \* the number of the parseText call
    total,              \* the number of lines of the document of the run
    textLines,          \* the lines of the document the driver has reached
    state,              \* the state of the machine
    output,             \* the accumulator
    pendingTransaction, \* the module-level variable of revisions B and C
    pc,                 \* "action", "transition", "done" or "failed"
    acted,              \* the state and the line of the last action call
    actionLog,          \* the lines handed to the action, by number
    transitionLog,      \* the lines handed to the transition, by number
    again,              \* the run parses the document of the run before
    previous,           \* that document and the output of that run
    debug,              \* parserInput.debug of the run
    trace,              \* what the run has logged
    visited,            \* the states the transitions of the run have returned
    pdfPc,              \* where readPdf or getPdfDocument is, or "none"
    pathExists,         \* existsSync(path)
    numPages,           \* document.numPages
    pageNum,            \* the page readPdf is at
    items,              \* textContent.items of every page, as far as handed over
    itemsByY,           \* the rows of the page readPdf is at
    pages               \* the lines of the pages readPdf has finished

driverVars ==
    <<rev, parserOptions, run, total, textLines, state, output, pendingTransaction, pc,
      acted, actionLog, transitionLog, again, previous, debug, trace, visited>>

pdfVars == <<pdfPc, pathExists, numPages, pageNum, items, itemsByY, pages>>

vars == <<driverVars, pdfVars>>

\* No document is being read.
noPdf ==
    /\ pdfPc = "none"
    /\ pathExists = FALSE
    /\ numPages = 0
    /\ pageNum = 0
    /\ items = <<>>
    /\ itemsByY = <<>>
    /\ pages = <<>>

noPrevious == [textLines |-> <<>>, output |-> initOutput]

\* A driver whose debug mode logs the transition and does not take it.
tracedTransitionStays(debugFlag, log, currentState, line, next) ==
    [state |-> IF debugFlag THEN currentState ELSE next,
     trace |-> IF debugFlag THEN Append(log, <<currentState, line, next>>) ELSE log]

\* The driver takes the transition the plugin returns; in debug mode it
\* logs the triple (state, line, next state) as well.
tracedTransition(debugFlag, log, currentState, line, next) ==
    [state |-> next,
     trace |-> IF debugFlag THEN Append(log, <<currentState, line, next>>) ELSE log]

Init ==
    /\ rev \in Revisions
    /\ parserOptions \in [yearPrefix : YearPrefixes]
    /\ run = 1
    /\ total \in 0..MaxLines
    /\ textLines = <<>>
    /\ state = Header
    /\ output = initOutput
    /\ pendingTransaction = null
    /\ pc = "action"
    /\ acted = [state |-> Header, index |-> 0]
    /\ actionLog = <<>>
    /\ transitionLog = <<>>
    /\ again = FALSE
    /\ previous = noPrevious
    /\ debug = FALSE
    /\ trace = <<>>
    /\ visited = <<>>
    /\ noPdf

\* action(currentState, line, accumulator, options) for the next line.
InvokeAction ==
    LET call(line, handed, result) ==
            /\ textLines' = Append(textLines, line)
            /\ output' = result.output
            /\ pendingTransaction' = result.pending
            /\ acted' = [state |-> handed, index |-> Len(textLines) + 1]
            /\ actionLog' = Append(actionLog, Len(textLines) + 1)
    IN  /\ pc = "action"
        /\ hasNextLine(state, Len(textLines), total)
        /\ \E line \in (IF again THEN {previous.textLines[Len(textLines) + 1]}
                        ELSE LinePool) :
               call(line, actionState(rev, state, line),
                    performStateAction(rev, actionState(rev, state, line), line, output,
                                       parserOptions, pendingTransaction))
        /\ pc' = "transition"
        /\ UNCHANGED <<rev, parserOptions, run, total, state, transitionLog, again,
                       previous, debug, trace, visited, pdfVars>>

\* transition(currentState, line, options) for the line just acted on.
InvokeTransition ==
    LET taken(result) ==
            /\ state' = result.state
            /\ trace' = result.trace
            /\ visited' = Append(visited, result.state)
    IN  /\ pc = "transition"
        /\ taken(tracedTransition(debug, trace, state, textLines[Len(textLines)],
                                  nextState(rev, state, textLines[Len(textLines)])))
        /\ transitionLog' = Append(transitionLog, Len(textLines))
        /\ pc' = "action"
        /\ UNCHANGED <<rev, parserOptions, run, total, textLines, output,
                       pendingTransaction, acted, actionLog, again, previous, debug,
                       pdfVars>>

\* A driver that returns a result only when the machine has reached End.
returnsInEndOnly(currentState, done, count) == done >= count /\ currentState = End

\* The driver returns when no line is left, whatever state the machine is in.
endOfInput(currentState, done, count) == ~hasNextLine(currentState, done, count)

\* The run returns the accumulator.
Return ==
    /\ pc = "action"
    /\ endOfInput(state, Len(textLines), total)
    /\ pc' = "done"
    /\ UNCHANGED <<rev, parserOptions, run, total, textLines, state, output,
                   pendingTransaction, acted, actionLog, transitionLog, again, previous,
                   debug, trace, visited, pdfVars>>

\* What every parseText call starts from; the module keeps pendingTransaction.
StartRun ==
    /\ pc = "done"
    /\ run < MaxRuns
    /\ run' = run + 1
    /\ textLines' = <<>>
    /\ state' = Header
    /\ output' = initOutput
    /\ pc' = "action"
    /\ acted' = [state |-> Header, index |-> 0]
    /\ actionLog' = <<>>
    /\ transitionLog' = <<>>
    /\ trace' = <<>>
    /\ visited' = <<>>
    /\ UNCHANGED <<rev, parserOptions, pendingTransaction, debug, pdfVars>>

\* parseText is called with the same lines once more.
ParseAgain ==
    /\ StartRun
    /\ again' = TRUE
    /\ previous' = [textLines |-> textLines, output |-> output]
    /\ total' = Len(textLines)

\* parseText is called with the lines of another document.
ParseAnother ==
    /\ StartRun
    /\ again' = FALSE
    /\ previous' = noPrevious
    /\ total' \in 0..MaxLines

Next ==
    \/ InvokeAction
    \/ InvokeTransition
    \/ Return
    \/ ParseAgain
    \/ ParseAnother

Spec == Init /\ [][Next]_vars

\* Lines of a document after its table-header line.
MaxTableLines == 3

\* The first run of a process, once the driver has handed the table-header
\* line of the document to the action and to the transition.
InitTable ==
    /\ rev \in Revisions
    /\ parserOptions \in [yearPrefix : YearPrefixes]
    /\ run = 1
    /\ total \in 1..(MaxTableLines + 1)
    /\ textLines = <<tableHeaderLine>>
    /\ state = nextState(rev, Header, tableHeaderLine)
    /\ output = performStateAction(rev, Header, tableHeaderLine, initOutput,
                                   parserOptions, null).output
    /\ pendingTransaction = null
    /\ pc = "action"
    /\ acted = [state |-> Header, index |-> 1]
    /\ actionLog = <<1>>
    /\ transitionLog = <<1>>
    /\ again = FALSE
    /\ previous = noPrevious
    /\ debug = FALSE
    /\ trace = <<>>
    /\ visited = <<nextState(rev, Header, tableHeaderLine)>>
    /\ noPdf

\* The rest of that run.
NextTable ==
    \/ InvokeAction
    \/ InvokeTransition
    \/ Return

SpecTable == InitTable /\ [][NextTable]_vars

\* The first run of a process, with parserInput.debug either way.
InitDebug ==
    /\ rev \in Revisions
    /\ parserOptions \in [yearPrefix : YearPrefixes]
    /\ run = 1
    /\ total \in 0..MaxLines
    /\ textLines = <<>>
    /\ state = Header
    /\ output = initOutput
    /\ pendingTransaction = null
    /\ pc = "action"
    /\ acted = [state |-> Header, index |-> 0]
    /\ actionLog = <<>>
    /\ transitionLog = <<>>
    /\ again = FALSE
    /\ previous = [textLines |-> <<>>, output |-> initOutput, visited |-> <<>>]
    /\ debug \in BOOLEAN
    /\ trace = <<>>
    /\ visited = <<>>
    /\ noPdf

\* The same lines and options are parsed in a process of their own, with
\* the other value of parserInput.debug.
ParseWithOtherDebug ==
    /\ pc = "done"
    /\ run = 1
    /\ run' = 2
    /\ total' = Len(textLines)
    /\ textLines' = <<>>
    /\ state' = Header
    /\ output' = initOutput
    /\ pendingTransaction' = null
    /\ pc' = "action"
    /\ acted' = [state |-> Header, index |-> 0]
    /\ actionLog' = <<>>
    /\ transitionLog' = <<>>
    /\ again' = TRUE
    /\ previous' = [textLines |-> textLines, output |-> output, visited |-> visited]
    /\ debug' = ~debug
    /\ trace' = <<>>
    /\ visited' = <<>>
    /\ UNCHANGED <<rev, parserOptions, pdfVars>>

NextDebug ==
    \/ InvokeAction
    \/ InvokeTransition
    \/ Return
    \/ ParseWithOtherDebug

SpecDebug == InitDebug /\ [][NextDebug]_vars

\* ------------------------------------------- exampleStatementParser

InnerState == "inner-state"
ExampleState == {Header, InnerState, End}

\* Tokens \d{2}\/\d{2} and \$[-,.\d]+ of the lines below.
SlashDates == {"01/15"}
DollarAmounts == {"$150.00"}

\* What safeMatch(line, validPaymentRegExp) returns for
\* /(\d{2}\/\d{2})\s+(.+)\$([-,.\d]+)/: the first date, the last "$" amount
\* with text between them, or matched = FALSE.
validPaymentRegExp(line) ==
    LET dollars(k) == {j \in DOMAIN line : j >= k + 2 /\ line[j] \in DollarAmounts}
        starts == {k \in DOMAIN line : line[k] \in SlashDates /\ dollars(k) # {}}
        groups(k, j) ==
            [matched |-> TRUE, dateString |-> line[k],
             descriptionString |-> SubSeq(line, k + 1, j - 1),
             amountString |-> IF line[j] = "$150.00" THEN "150.00" ELSE ""]
        last(k) == CHOOSE j \in dollars(k) : \A i \in dollars(k) : i <= j
        first == CHOOSE k \in starts : \A i \in starts : k <= i
    IN  IF starts = {}
        THEN [matched |-> FALSE, dateString |-> "", descriptionString |-> <<>>,
              amountString |-> ""]
        ELSE groups(first, last(first))

\* createDateFromUtcIsoFormat(dateString) of a month/day string: the text
\* handed to Date is not year-month-day, the date is invalid and the
\* function throws.
createDateFromMonthDay(dateString) == InvalidDateError

\* readPayment: the transaction of the line, undefined, or raised = TRUE
\* when createDateFromUtcIsoFormat throws.
readPayment(line) ==
    LET built(m, made) ==
            IF m.matched /\ m.dateString # "" /\ m.descriptionString # <<>>
                         /\ m.amountString # ""
            THEN [raised |-> made = InvalidDateError,
                  transaction |->
                      Transaction(made, m.descriptionString,
                                  Number(NumberValue(m.amountString)), <<line>>)]
            ELSE [raised |-> FALSE, transaction |-> undefined]
        matched(m) == built(m, createDateFromMonthDay(m.dateString))
    IN  matched(validPaymentRegExp(line))

\* A performStateAction of exampleStatementParser that reads payments in
\* every state.
parsesInEveryState(currentState, line, out) ==
    LET pushed(read) ==
            IF read.raised THEN [raised |-> TRUE, output |-> out]
            ELSE IF read.transaction # undefined
            THEN [raised |-> FALSE,
                  output |-> [out EXCEPT !.incomes = Append(@, read.transaction)]]
            ELSE [raised |-> FALSE, output |-> out]
    IN  IF validPaymentRegExp(line).matched
        THEN pushed(readPayment(line))
        ELSE [raised |-> FALSE, output |-> out]

\* performStateAction of exampleStatementParser: raised = TRUE when
\* readPayment throws, and then nothing is returned.
examplePerformStateAction(currentState, line, out) ==
    LET pushed(read) ==
            IF read.raised THEN [raised |-> TRUE, output |-> out]
            ELSE IF read.transaction # undefined
            THEN [raised |-> FALSE,
                  output |-> [out EXCEPT !.incomes = Append(@, read.transaction)]]
            ELSE [raised |-> FALSE, output |-> out]
    IN  IF currentState = InnerState /\ validPaymentRegExp(line).matched
        THEN pushed(readPayment(line))
        ELSE [raised |-> FALSE, output |-> out]

\* nextState of exampleStatementParser.
exampleNextState(currentState, line) ==
    IF currentState = Header THEN InnerState
    ELSE IF currentState = InnerState /\ lowerLine(line) = <<"end", "inner", "state">>
    THEN End
    ELSE currentState

exampleTitleLine == <<"Example", "Statement">>
paymentLine == <<"01/15", "Groceries", "$150.00">>
endInnerStateLine == <<"END", "INNER", "STATE">>
noteLine == <<"Thank", "you">>
dateOnlyLine == <<"01/15", "$150.00">>

ExampleLinePool ==
    {exampleTitleLine, paymentLine, endInnerStateLine, noteLine, dateOnlyLine}

\* Lines of a document handed to exampleStatementParser.
MaxExampleLines == 4

\* A driver that goes on to the transition of a line whose action has raised.
pluginErrorSwallowed(raised) == "transition"

\* The driver does not catch what the plugin raises: the run ends there.
pluginErrorIsFatal(raised) == IF raised THEN "failed" ELSE "transition"

InitExample ==
    /\ rev = "example"
    /\ parserOptions = [yearPrefix |-> 20]
    /\ run = 1
    /\ total \in 0..MaxExampleLines
    /\ textLines = <<>>
    /\ state = Header
    /\ output = initOutput
    /\ pendingTransaction = null
    /\ pc = "action"
    /\ acted = [state |-> Header, index |-> 0]
    /\ actionLog = <<>>
    /\ transitionLog = <<>>
    /\ again = FALSE
    /\ previous = noPrevious
    /\ debug = FALSE
    /\ trace = <<>>
    /\ visited = <<>>
    /\ noPdf

\* action(currentState, line, accumulator) for the next line; the run has
\* failed (pc = "failed") when it raises.
InvokeExampleAction ==
    LET call(line, result) ==
            /\ textLines' = Append(textLines, line)
            /\ output' = result.output
            /\ acted' = [state |-> state, index |-> Len(textLines) + 1]
            /\ actionLog' = Append(actionLog, Len(textLines) + 1)
            /\ pc' = pluginErrorIsFatal(result.raised)
    IN  /\ pc = "action"
        /\ hasNextLine(state, Len(textLines), total)
        /\ \E line \in ExampleLinePool :
               call(line, examplePerformStateAction(state, line, output))
        /\ UNCHANGED <<rev, parserOptions, run, total, state, pendingTransaction,
                       transitionLog, again, previous, debug, trace, visited, pdfVars>>

\* next(currentState, line) for the line just acted on.
InvokeExampleTransition ==
    /\ pc = "transition"
    /\ state' = exampleNextState(state, textLines[Len(textLines)])
    /\ transitionLog' = Append(transitionLog, Len(textLines))
    /\ visited' = Append(visited, state')
    /\ pc' = "action"
    /\ UNCHANGED <<rev, parserOptions, run, total, textLines, output, pendingTransaction,
                   acted, actionLog, again, previous, debug, trace, pdfVars>>

NextExample ==
    \/ InvokeExampleAction
    \/ InvokeExampleTransition
    \/ Return

SpecExample == InitExample /\ [][NextExample]_vars

\* ----------------------------------------------------------- readPdf

\* Pages of a document, and text items of a document.
MaxPages == 2
MaxItems == 3

\* item.str of a text item: words, a space, the empty string.
ItemStrings == {"Date", "Amount", " ", ""}

\* item.transform[4] and item.transform[5] in tenths of a unit: 9.6 and
\* 10.4 round to 10, 10.6 rounds to 11.
ItemXs == {100, 500}
ItemYs == {96, 104, 106}

\* The text items pdfjs hands over; hasY = FALSE is an item whose
\* transform[5] is undefined, hasX = FALSE one whose transform[4] is.
TextItems ==
    [str : ItemStrings, x : ItemXs, y : ItemYs, hasX : {TRUE}, hasY : {TRUE}]
        \cup [str : {"Date"}, x : {100}, y : {0}, hasX : {TRUE}, hasY : {FALSE}]
        \cup [str : {"Date"}, x : {0}, y : {96}, hasX : {FALSE}, hasY : {TRUE}]

\* Math.floor of a coordinate in tenths.
MathFloor(tenths) == tenths \div 10

\* Math.round of a coordinate in tenths.
MathRound(tenths) == (tenths + 5) \div 10

\* A grouping that assigns the item to its row instead of pushing it.
assignsToRow(byY, item) ==
    IF item.hasY
    THEN [k \in DOMAIN byY \cup {MathRound(item.y)} |->
             IF k = MathRound(item.y) THEN <<item>> ELSE byY[k]]
    ELSE byY

\* itemsByY[y].push(item), where y = Math.round(item.transform[5]); an
\* item without transform[5] is left out.
groupByY(byY, item) ==
    LET pushed(y) ==
            [k \in DOMAIN byY \cup {y} |->
                IF k \in DOMAIN byY THEN (IF k = y THEN Append(byY[k], item) ELSE byY[k])
                ELSE <<item>>]
    IN  IF item.hasY THEN pushed(MathRound(item.y)) ELSE byY

\* The keys sorted with (a, b) => a - b.
RECURSIVE sortAscending(_)
sortAscending(keys) ==
    IF keys = {} THEN <<>>
    ELSE LET least == CHOOSE a \in keys : \A b \in keys : a <= b
         IN  <<least>> \o sortAscending(keys \ {least})

\* The keys sorted with (a, b) => b - a.
RECURSIVE sortDescending(_)
sortDescending(keys) ==
    IF keys = {} THEN <<>>
    ELSE LET greatest == CHOOSE a \in keys : \A b \in keys : a >= b
         IN  <<greatest>> \o sortDescending(keys \ {greatest})

\* lineData.sort((a, b) => a.transform[4] - b.transform[4]): the sort is
\* stable, items of equal x keep the order they came in.
RECURSIVE sortByX(_)
sortByX(lineData) ==
    IF lineData = <<>> THEN <<>>
    ELSE LET placed(sorted, item) ==
                 SelectSeq(sorted, LAMBDA other : other.x <= item.x)
                     \o <<item>>
                     \o SelectSeq(sorted, LAMBDA other : other.x > item.x)
         IN  placed(sortByX(SubSeq(lineData, 1, Len(lineData) - 1)),
                    lineData[Len(lineData)])

\* lineItems.map(item => item.str).join(' ').trim(), as the texts of the
\* items: the spaces and empty texts at both ends are trimmed away.
RECURSIVE joinAndTrim(_)
joinAndTrim(strs) ==
    IF strs = <<>> THEN <<>>
    ELSE IF Head(strs) \in {" ", ""} THEN joinAndTrim(Tail(strs))
    ELSE IF strs[Len(strs)] \in {" ", ""}
    THEN joinAndTrim(SubSeq(strs, 1, Len(strs) - 1))
    ELSE strs

\* The orders lineData.sort can leave a row in.  With an item whose
\* transform[4] is undefined the comparator returns NaN for some pairs and
\* is not consistent: the order is then left to the implementation.
sortsByX(lineData) ==
    IF \A k \in DOMAIN lineData : lineData[k].hasX
    THEN {sortByX(lineData)}
    ELSE {[k \in DOMAIN lineData |-> lineData[order[k]]] :
              order \in {o \in [DOMAIN lineData -> DOMAIN lineData] :
                            \A k, l \in DOMAIN lineData : o[k] = o[l] => k = l}}

\* The rows of a page, each sorted where it is.
sortedRows(byY) ==
    {sorted \in [DOMAIN byY -> UNION {sortsByX(byY[y]) : y \in DOMAIN byY}] :
        \A y \in DOMAIN byY : sorted[y] \in sortsByX(byY[y])}

\* The line of the row y: its text, and the items the text was joined from.
lineOf(sorted, y) ==
    LET made(lineItems) ==
            [lineText |-> joinAndTrim([k \in DOMAIN lineItems |-> lineItems[k].str]),
             lineItems |-> lineItems]
    IN  made(sorted[y])

\* The lines of a page: a line for every row from the top, the rows with
\* an empty text left out.
linesOf(sorted) ==
    LET rows(order) == [k \in DOMAIN order |-> lineOf(sorted, order[k])]
    IN  SelectSeq(rows(sortDescending(DOMAIN sorted)), LAMBDA row : row.lineText # <<>>)

\* A checkThatPdfExists that lets every path through.
checksNothing(exists) == "returned"

\* checkThatPdfExists: it returns, or throws 'PDF file ... does not exist'.
checkThatPdfExists(exists) == IF exists THEN "returned" ELSE "does not exist"

\* The items of the document handed over so far.
RECURSIVE itemCount(_)
itemCount(pageItems) ==
    IF pageItems = <<>> THEN 0 ELSE Len(Head(pageItems)) + itemCount(Tail(pageItems))

InitPdf ==
    /\ rev = "A"
    /\ parserOptions = [yearPrefix |-> 20]
    /\ run = 1
    /\ total = 0
    /\ textLines = <<>>
    /\ state = Header
    /\ output = initOutput
    /\ pendingTransaction = null
    /\ pc = "done"
    /\ acted = [state |-> Header, index |-> 0]
    /\ actionLog = <<>>
    /\ transitionLog = <<>>
    /\ again = FALSE
    /\ previous = noPrevious
    /\ debug = FALSE
    /\ trace = <<>>
    /\ visited = <<>>
    /\ pdfPc \in {"check", "document"}
    /\ pathExists \in BOOLEAN
    /\ numPages \in (IF pathExists THEN 1..MaxPages ELSE {0})
    /\ pageNum = 1
    /\ items = [p \in 1..numPages |-> <<>>]
    /\ itemsByY = <<>>
    /\ pages = <<>>

\* readPdf, line 6: checkThatPdfExists(path).
CheckPath ==
    /\ pdfPc = "check"
    /\ pdfPc' = IF checkThatPdfExists(pathExists) = "returned" THEN "open" ELSE "error"
    /\ UNCHANGED <<driverVars, pathExists, numPages, pageNum, items, itemsByY, pages>>

\* getPdfDocument, called by readPdf (pdfPc = "open") or by itself
\* (pdfPc = "document"): it checks the path and opens the document.
GetPdfDocument ==
    /\ pdfPc \in {"open", "document"}
    /\ pdfPc' = IF checkThatPdfExists(pathExists) # "returned" THEN "error"
                ELSE IF pdfPc = "open" THEN "page" ELSE "opened"
    /\ UNCHANGED <<driverVars, pathExists, numPages, pageNum, items, itemsByY, pages>>

\* textContent.items.forEach: the next item of the page is put into its row.
GroupItem ==
    /\ pdfPc = "page"
    /\ pageNum <= numPages
    /\ itemCount(items) < MaxItems
    /\ \E item \in TextItems :
           /\ items' = [items EXCEPT ![pageNum] = Append(@, item)]
           /\ itemsByY' = groupByY(itemsByY, item)
    /\ UNCHANGED <<driverVars, pdfPc, pathExists, numPages, pageNum, pages>>

\* A readPdf that has one itemsByY for all the pages of the document.
keepsItemsByY(byY) == byY

\* const itemsByY = {} in the body of the loop: every page starts without
\* rows.
newItemsByY(byY) == <<>>

\* The items of the page are through: pages.push(lines), and the loop goes
\* to the next page.
PushLines ==
    /\ pdfPc = "page"
    /\ pageNum <= numPages
    /\ \E sorted \in sortedRows(itemsByY) : pages' = Append(pages, linesOf(sorted))
    /\ pageNum' = pageNum + 1
    /\ itemsByY' = newItemsByY(itemsByY)
    /\ UNCHANGED <<driverVars, pdfPc, pathExists, numPages, items>>

\* return pages
ReturnPages ==
    /\ pdfPc = "page"
    /\ pageNum > numPages
    /\ pdfPc' = "done"
    /\ UNCHANGED <<driverVars, pathExists, numPages, pageNum, items, itemsByY, pages>>

NextPdf ==
    \/ CheckPath
    \/ GetPdfDocument
    \/ GroupItem
    \/ PushLines
    \/ ReturnPages

SpecPdf == InitPdf /\ [][NextPdf]_vars

\* ------------------------------------------------------------ claims

\* The line the driver is at, once it has reached one.
currentLine == textLines[Len(textLines)]

\* incomes.length + expenses.length
transactionCount(out) == Len(out.incomes) + Len(out.expenses)

\* An action call, and a transition call, as steps of the run.
ActionStep == pc = "action" /\ pc' = "transition"
TransitionStep == pc = "transition" /\ pc' = "action"

\* C1: the terminal state is absorbing.  nextState maps End to End for every
\* line, so a run whose state is End is in End after every later line.
C1_EndIsAbsorbing ==
    [][/\ \A line \in LinePool : nextState(rev, End, line) = End
       /\ (state = End /\ run' = run) => state' = End]_vars

\* C1, its case: a line was acted on in End, its transition was computed, and
\* the state is End.
C1_LineAfterEnd ==
    /\ pc = "action"
    /\ state = End
    /\ acted.state = End
    /\ Len(transitionLog) = acted.index

\* C2: for every line the action is invoked first, with the state held
\* before the line, and the transition is computed after it from that same
\* state and line; the line that moves Header to TransactionLines is acted
\* on in Header, the line that moves TransactionLines to End in
\* TransactionLines.
C2_ActionThenTransition ==
    [][/\ ActionStep =>
             /\ transitionLog = actionLog
             /\ acted'.state = state
             /\ acted'.index = Len(actionLog) + 1
       /\ TransitionStep =>
             /\ acted.state = state
             /\ acted.index = Len(textLines)
             /\ actionLog = Append(transitionLog, acted.index)
             /\ state' = nextState(rev, acted.state, textLines[acted.index])
       /\ (state = Header /\ state' = TransactionLines) => acted.state = Header
       /\ (state = TransactionLines /\ state' = End) => acted.state = TransactionLines]_vars

\* C2, its case: the line that moved the machine to End has been acted on,
\* after the table-header line moved it to TransactionLines.
C2_ClosingLineActed ==
    /\ pc = "action"
    /\ state = End
    /\ acted.state = TransactionLines
    /\ acted.index = Len(transitionLog)
    /\ textLines[1] = tableHeaderLine

\* C3: a run hands every line to the action and to the transition exactly
\* once, in input order: the calls number the lines 1, 2, ... without a gap,
\* and when the run returns both have had every line, the lines after End
\* too.
C3_EveryLineOnce ==
    /\ actionLog = [k \in 1..Len(actionLog) |-> k]
    /\ transitionLog = [k \in 1..Len(transitionLog) |-> k]
    /\ Len(actionLog) = Len(transitionLog) + (IF pc = "transition" THEN 1 ELSE 0)
    /\ Len(textLines) = Len(actionLog)
    /\ pc = "done" => Len(actionLog) = total /\ Len(transitionLog) = total

\* C3, its case: a run of three lines has returned, and its last line was
\* handed to the action in End.
C3_ReturnedAfterEnd ==
    /\ pc = "done"
    /\ total = MaxLines
    /\ acted.state = End
    /\ acted.index = total

\* C4: parsing is deterministic and runs share no state.  The parser is
\* run on the same lines twice in one process, with a fresh accumulator and
\* the same options: the second run returns what the first returned.
C4_SameLinesSameOutput ==
    (pc = "done" /\ again) => output = previous.output

\* C5: the sign invariant.  Every transaction in incomes has an amount
\* above zero and every transaction in expenses an amount below zero; no
\* recorded amount is zero or NaN.
C5_SignInvariant ==
    /\ \A k \in DOMAIN output.incomes :
           /\ output.incomes[k].amount.kind = "number"
           /\ output.incomes[k].amount.cents > 0
    /\ \A k \in DOMAIN output.expenses :
           /\ output.expenses[k].amount.kind = "number"
           /\ output.expenses[k].amount.cents < 0

\* The transactions an action call appended.
appended(before, after) ==
    {after.incomes[k] : k \in (Len(before.incomes) + 1)..Len(after.incomes)}
        \cup {after.expenses[k] : k \in (Len(before.expenses) + 1)..Len(after.expenses)}

\* An action call left every transaction recorded before it in place.
keptTransactions(before, after) ==
    /\ Len(after.incomes) >= Len(before.incomes)
    /\ Len(after.expenses) >= Len(before.expenses)
    /\ SubSeq(after.incomes, 1, Len(before.incomes)) = before.incomes
    /\ SubSeq(after.expenses, 1, Len(before.expenses)) = before.expenses

\* A line of the shape DATE VALUE_DATE DESCRIPTION AMOUNT BALANCE with a
\* valid date.
fullShape(line) ==
    /\ standardPattern(collapseSpaces(line)).matched
    /\ parseDate(SubSeq(collapseSpaces(line), 1, 3)).valid

\* C6: every line of the full shape with a valid date that is processed in
\* TransactionLines adds exactly one transaction, which carries the date,
\* the description and the amount of that line, also when an earlier line
\* left a transaction pending.
C6_FullShapeLineAddsOne ==
    [][(ActionStep /\ state = TransactionLines /\ fullShape(currentLine')) =>
           /\ transactionCount(output') = transactionCount(output) + 1
           /\ \A tx \in appended(output, output') :
                  /\ tx.date = parseDate(SubSeq(currentLine', 1, 3))
                  /\ tx.description = standardPattern(currentLine').description
                  /\ MathAbs(tx.amount) =
                         MathAbs(parseAmount(standardPattern(currentLine').amountStr))]_vars

\* A line that does not start a transaction and ends with an amount and a
\* balance.
suppliesAmountAndBalance(line) ==
    /\ ~startsWithDate(collapseSpaces(line))
    /\ Len(line) >= 2
    /\ line[Len(line) - 1] \in NumberToken
    /\ line[Len(line)] \in NumberToken

\* C7: multi-line transactions are recorded.  A transaction is pending
\* without amount and balance and a continuation line supplies them: the
\* action call for that line appends the completed transaction and leaves
\* the carry empty.
C7_ContinuationCompletes ==
    [][(/\ ActionStep
        /\ state = TransactionLines
        /\ pendingTransaction # null
        /\ lastNumber(pendingTransaction.description) = ""
        /\ suppliesAmountAndBalance(currentLine')) =>
           /\ transactionCount(output') = transactionCount(output) + 1
           /\ pendingTransaction' = null]_vars

\* C8: a new transaction-start line ends any older pending transaction.
\* After the action has processed a line that starts with a date while a
\* transaction was pending, the carry is empty or holds only what the new
\* line gave.
C8_StartLineEndsPending ==
    [][(/\ ActionStep
        /\ state = TransactionLines
        /\ pendingTransaction # null
        /\ startsWithDate(collapseSpaces(currentLine'))) =>
           \/ pendingTransaction' = null
           \/ /\ pendingTransaction'.originalText = <<currentLine'>>
              /\ pendingTransaction'.description =
                     SubSeq(currentLine', 7, Len(currentLine'))]_vars

\* A transaction is the pending one, flushed: the carry with an amount.
flushedFrom(tx, pending) ==
    /\ pending # null
    /\ tx.date = pending.date
    /\ tx.description = pending.description
    /\ tx.originalText = pending.originalText

\* C9 as stated: once the state is End the action leaves name,
\* accountSuffix, startDate, endDate and yearPrefix unchanged and appends no
\* transaction but the flushed pending one.
C9_EndActionIsNoOp ==
    [][(ActionStep /\ state = End) =>
           /\ output'.name = output.name
           /\ output'.accountSuffix = output.accountSuffix
           /\ output'.startDate = output.startDate
           /\ output'.endDate = output.endDate
           /\ output'.yearPrefix = output.yearPrefix
           /\ keptTransactions(output, output')
           /\ transactionCount(output') <= transactionCount(output) + 1
           /\ \A tx \in appended(output, output') : flushedFrom(tx, pendingTransaction)]_vars

\* C9, amended: once the state is End the action appends no transaction but
\* the flushed pending one, which empties the carry; name and accountSuffix
\* change only on a line with an account number, startDate, endDate and
\* yearPrefix only on a statement-period line.
C9_EndActionFlushesAndExtracts ==
    [][(ActionStep /\ state = End) =>
           /\ accountMatch(currentLine') = 0 =>
                  /\ output'.name = output.name
                  /\ output'.accountSuffix = output.accountSuffix
           /\ periodMatch(currentLine') = 0 =>
                  /\ output'.startDate = output.startDate
                  /\ output'.endDate = output.endDate
                  /\ output'.yearPrefix = output.yearPrefix
           /\ keptTransactions(output, output')
           /\ transactionCount(output') <= transactionCount(output) + 1
           /\ \A tx \in appended(output, output') : flushedFrom(tx, pendingTransaction)
           /\ rev = "B" => pendingTransaction' = null
           /\ rev # "B" => pendingTransaction' = pendingTransaction]_vars

\* C9, its case: in End the action has flushed a pending transaction on an
\* account-number line, and has read the name from that line.
C9_FlushedInEnd ==
    /\ pc = "transition"
    /\ acted.state = End
    /\ textLines = <<tableHeaderLine, closingLine, accountLine>>
    /\ transactionCount(output) = 1
    /\ pendingTransaction = null
    /\ output.name = <<"JOHN", "DOE">>

\* C10: header extraction does not depend on the state.  In every state a
\* line with "AC-NUM ddd-ddd-ddddddd-dd-d" sets accountSuffix to the digits
\* after the last dash, and sets name to the upper-case words the line
\* starts with before AC-NUM, trimmed.
C10_AccountLineInEveryState ==
    [][ActionStep =>
           /\ currentLine' = accountLine =>
                  /\ output'.accountSuffix = "6"
                  /\ output'.name = <<"JOHN", "DOE">>
           /\ accountMatch(currentLine') # 0 =>
                  /\ output'.accountSuffix =
                         AccountSuffix(currentLine'[accountMatch(currentLine') + 1])
                  /\ nameMatch(currentLine') # <<>> =>
                         output'.name = nameMatch(currentLine')]_vars

\* C10, its case: the account-number line has been acted on in End, after
\* the closing line.
C10_AccountLineInEnd ==
    /\ pc = "transition"
    /\ acted.state = End
    /\ currentLine = accountLine
    /\ textLines[2] = closingLine
    /\ output.accountSuffix = "6"
    /\ output.name = <<"JOHN", "DOE">>

\* A statement-period line both of whose dates parseDate accepts.
validPeriodLine(line) ==
    /\ periodMatch(trim(line)) # 0
    /\ parseDate(SubSeq(trim(line), periodMatch(trim(line)) + 3,
                        periodMatch(trim(line)) + 5)).valid
    /\ parseDate(SubSeq(trim(line), periodMatch(trim(line)) + 7,
                        periodMatch(trim(line)) + 9)).valid

\* The two dates of a statement-period line.
periodStart(line) ==
    parseDate(SubSeq(trim(line), periodMatch(trim(line)) + 3, periodMatch(trim(line)) + 5))
periodEnd(line) ==
    parseDate(SubSeq(trim(line), periodMatch(trim(line)) + 7, periodMatch(trim(line)) + 9))

\* The places of the valid statement-period lines of the document.
validPeriods == {k \in DOMAIN textLines : validPeriodLine(textLines[k])}
lastValidPeriod == textLines[CHOOSE k \in validPeriods : \A j \in validPeriods : j <= k]

\* C11: when a run that processed at least one line returns, yearPrefix is
\* floor(startYear / 100) of the last valid statement-period line, whatever
\* prefix was configured, and startDate and endDate are the two dates of
\* that line; without such a line yearPrefix is the configured prefix.
C11_YearPrefixFromPeriod ==
    (pc = "done" /\ total >= 1) =>
        IF validPeriods # {}
        THEN /\ output.yearPrefix = yearPrefixOf(periodStart(lastValidPeriod))
             /\ output.startDate = periodStart(lastValidPeriod)
             /\ output.endDate = periodEnd(lastValidPeriod)
        ELSE output.yearPrefix = parserOptions.yearPrefix

\* The documented transaction types, by the words a description starts with.
expenseType(description) ==
    \/ startsWith(description, <<"POS", "Settlement">>)
    \/ startsWith(description, <<"Switch", "Transaction">>)
    \/ startsWith(description, <<"SW", "WDL", "Chgs">>)
incomeType(description) ==
    \/ startsWith(description, <<"ATM", "Cash", "Deposit">>)
    \/ startsWith(description, <<"Transfer">>)
    \/ startsWith(description, <<"Inward", "IPP", "Payment">>)
    \/ startsWith(description, <<"Reverse", "Charges">>)

\* C12: classification follows the documented types.  No transaction of an
\* expense type is in incomes and none of an income type is in expenses,
\* whatever words follow the type in the description.
C12_ClassifiedByType ==
    /\ \A k \in DOMAIN output.incomes : ~expenseType(output.incomes[k].description)
    /\ \A k \in DOMAIN output.expenses : ~incomeType(output.expenses[k].description)

\* The places of the input where a recorded transaction may have started:
\* the lines equal to the first line of its originalText.
startPlaces(tx) == {k \in DOMAIN textLines : trim(textLines[k]) = tx.originalText[1]}

\* A list is in the order of the lines its transactions started on: for
\* two neighbours, the first started on an earlier line than the second.
inInputOrder(list) ==
    \A k \in 1..(Len(list) - 1) :
        \E i \in startPlaces(list[k]) : \E j \in startPlaces(list[k + 1]) : i < j

\* C13: incomes and expenses are in input order.  A transaction whose first
\* line comes earlier in the input is never placed after one whose first
\* line comes later.
C13_ListsInInputOrder ==
    /\ inInputOrder(output.incomes)
    /\ inInputOrder(output.expenses)

\* The words of the lines of an originalText, one line after the other.
RECURSIVE textOf(_)
textOf(originalText) ==
    IF originalText = <<>> THEN <<>>
    ELSE collapseSpaces(Head(originalText)) \o textOf(Tail(originalText))

\* The lines of an originalText are lines of the input, in input order.
fromInput(originalText) ==
    \E at \in [DOMAIN originalText -> DOMAIN textLines] :
        /\ \A k \in DOMAIN originalText : trim(textLines[at[k]]) = originalText[k]
        /\ \A k \in 1..(Len(originalText) - 1) : at[k] < at[k + 1]

\* C14: originalText holds every line a recorded transaction was built
\* from.  The description of a recorded transaction is read from the lines
\* of its originalText, the start line and the continuation lines appended
\* to it, which are lines of the input in input order.
C14_OriginalTextHoldsEveryLine ==
    run = 1 =>
        \A tx \in appended(initOutput, output) :
            /\ tx.originalText # <<>>
            /\ fromInput(tx.originalText)
            /\ includes(textOf(tx.originalText), tx.description)

\* C15: a run never fails because of the state it ends in.  When no line is
\* left the run can return, in Header, TransactionLines and End alike; it
\* returns the accumulator as the last action call left it, and for the
\* empty line sequence the initial accumulator.
C15_ReturnsInEveryState ==
    /\ []((pc = "action" /\ Len(textLines) = total) => ENABLED Return)
    /\ [][(pc # "done" /\ pc' = "done") =>
              /\ Len(textLines) = total
              /\ output' = output
              /\ state' = state
              /\ total = 0 => output' = initOutput]_vars

\* C15, its case: a run has returned transactions while the machine was
\* still in TransactionLines.
C15_ReturnedInTransactionLines ==
    /\ pc = "done"
    /\ state = TransactionLines
    /\ total = MaxLines
    /\ transactionCount(output) >= 1

\* A line that is no account-number line, no statement-period line and no
\* transaction-start line.
unrecognized(line) ==
    /\ accountMatch(trim(line)) = 0
    /\ periodMatch(trim(line)) = 0
    /\ ~startsWithDate(collapseSpaces(line))

\* An action call left the transactions and the account fields as they were.
skipped(before, after) ==
    /\ after.incomes = before.incomes
    /\ after.expenses = before.expenses
    /\ after.name = before.name
    /\ after.accountSuffix = before.accountSuffix
    /\ after.startDate = before.startDate
    /\ after.endDate = before.endDate

\* C16: unrecognized lines are skipped.  In any state a line that is no
\* account-number line, no statement-period line and no transaction-start
\* line changes neither incomes, expenses, name, accountSuffix, startDate
\* nor endDate.
C16_UnrecognizedLineSkipped ==
    [][(ActionStep /\ unrecognized(currentLine')) => skipped(output, output')]_vars

\* The values a Date | undefined field holds after a normal return.
DateOrUndefined ==
    {UndefinedDate} \cup
        [valid : {TRUE}, year : {1924, 2024}, month : 1..12, day : 1..31]

\* No error value is part of what an action call returned.
returnedNormally(out, pending) ==
    /\ out.startDate \in DateOrUndefined
    /\ out.endDate \in DateOrUndefined
    /\ \A tx \in appended(initOutput, out) : tx.date \in DateOrUndefined
    /\ pending.date \in DateOrUndefined

\* A line of the shape of a transaction line whose date parseDate rejects.
badDateLine(line) ==
    /\ standardPattern(collapseSpaces(line)).matched
    /\ ~parseDate(SubSeq(collapseSpaces(line), 1, 3)).valid

\* C17: the plugin functions are total.  In every state and for every
\* line performStateAction returns an accumulator without an error in it
\* and nextState returns a state; a date-shaped line with an unknown month
\* or an impossible day adds no transaction read from it and starts no
\* pending one, and its transition leaves the machine in the state it was in.
C17_PluginFunctionsTotal ==
    [][/\ (ActionStep => returnedNormally(output', pendingTransaction'))
       /\ (TransitionStep => state' \in State)
       /\ (TransitionStep /\ badDateLine(currentLine)) => state' = state
       /\ (ActionStep /\ badDateLine(currentLine')) =>
              /\ \A tx \in appended(output, output') :
                     /\ tx.originalText # <<currentLine'>>
                     /\ flushedFrom(tx, pendingTransaction)
              /\ pendingTransaction'.originalText # <<currentLine'>>]_vars

\* C17, its case: in TransactionLines a line with an impossible day and a
\* line with an unknown month were processed, and the run went on to
\* return no transaction.
C17_BadDatesProcessed ==
    /\ pc = "done"
    /\ textLines = <<tableHeaderLine, badDayLine, unknownMonthLine>>
    /\ state = TransactionLines
    /\ transactionCount(output) = 0

\* The action of exampleStatementParser raises on the line in the state.
raises(currentState, line) ==
    examplePerformStateAction(currentState, line, initOutput).raised

\* C18: a plugin error is fatal to the run.  A step fails the run exactly
\* when the action raises on its line; nothing is done after the failure:
\* no later line is handed to the plugin and no accumulator is returned;
\* and a run that returns has handed every line to the action and to the
\* transition, so the driver fails on no line the plugin accepts.
C18_PluginErrorIsFatal ==
    [][/\ pc # "failed"
       /\ (pc = "action" /\ pc' # "done") =>
              (pc' = "failed" <=> raises(state, currentLine'))
       /\ (pc' = "failed") =>
              /\ output' = output /\ state' = state
              /\ Len(textLines') = Len(transitionLog') + 1
       /\ (pc' = "done") =>
              /\ Len(actionLog) = total /\ Len(transitionLog) = total]_vars

\* C18 witness: the action has raised on a payment line while lines of the
\* document were left.
C18_FailedBeforeLastLine ==
    /\ pc = "failed"
    /\ currentLine = paymentLine
    /\ acted.state = InnerState
    /\ Len(textLines) = 2
    /\ total = MaxExampleLines

\* C19: debug tracing does not influence the result.  When the lines and
\* options of a run have been parsed again in a process of their own with
\* the other value of debug, the second run returns the accumulator of the
\* first and its transitions have returned the same states in the same
\* order; the run with debug logs one triple a line, the other logs nothing.
C19_DebugDoesNotInfluence ==
    /\ (pc = "done" /\ again) =>
           /\ output = previous.output
           /\ visited = previous.visited
           /\ textLines = previous.textLines
    /\ (pc = "action" /\ again) =>
           visited = SubSeq(previous.visited, 1, Len(textLines))
    /\ Len(trace) = IF debug THEN Len(visited) ELSE 0

\* C19 witness: a document with an income and an expense has been parsed
\* with debug and without, and the run without debug has found both.
C19_BothRunsReturned ==
    /\ pc = "done" /\ again /\ ~debug
    /\ total = MaxLines
    /\ state = TransactionLines
    /\ Len(output.incomes) = 1 /\ Len(output.expenses) = 1
    /\ Len(visited) = MaxLines

\* The items of page p that have a vertical coordinate.
placedItems(p) == {items[p][k] : k \in {i \in DOMAIN items[p] : items[p][i].hasY}}

\* The lines of page p that were joined from the item.
linesWith(p, item) ==
    {a \in DOMAIN pages[p] :
        \E k \in DOMAIN pages[p][a].lineItems : pages[p][a].lineItems[k] = item}

\* The items of every line of page p are in ascending x, where all the
\* items of the line have an x.
ascendingX(p) ==
    \A a \in DOMAIN pages[p] :
        (\A k \in DOMAIN pages[p][a].lineItems : pages[p][a].lineItems[k].hasX) =>
            \A k, l \in DOMAIN pages[p][a].lineItems :
                k < l => pages[p][a].lineItems[k].x <= pages[p][a].lineItems[l].x

\* C20: on every finished page, of two fragments with vertical coordinates
\* y1 > y2 the one at y1 is in a line strictly before the line of the one
\* at y2, and the fragments of a line are in ascending horizontal coordinate.
C20_OrderingInvariant ==
    \A p \in DOMAIN pages :
        /\ \A f1, f2 \in placedItems(p) :
               f1.y > f2.y =>
                   \E a \in linesWith(p, f1) : \E b \in linesWith(p, f2) : a < b
        /\ ascendingX(p)

\* The row of the item has a text: one of its items is neither a space nor
\* empty.
rowKept(p, item) ==
    \E other \in placedItems(p) :
        MathRound(other.y) = MathRound(item.y) /\ other.str \notin {" ", ""}

\* C20 as the code has it: the rows are those of the rounded coordinates,
\* and a row whose text is empty has no line.  Of two fragments of kept
\* rows with Math.round(y1) > Math.round(y2), each is in one line and the
\* line of the first is strictly before the line of the second; fragments
\* whose coordinates round to the same number are in the same line; and
\* the fragments of a line are in ascending horizontal coordinate.
C20_RoundedOrderingInvariant ==
    \A p \in DOMAIN pages :
        /\ \A f1, f2 \in placedItems(p) :
               (rowKept(p, f1) /\ rowKept(p, f2)) =>
                   /\ Cardinality(linesWith(p, f1)) = 1
                   /\ MathRound(f1.y) > MathRound(f2.y) =>
                          \A a \in linesWith(p, f1) : \A b \in linesWith(p, f2) : a < b
                   /\ MathRound(f1.y) = MathRound(f2.y) =>
                          linesWith(p, f1) = linesWith(p, f2)
        /\ \A f \in placedItems(p) : ~rowKept(p, f) => linesWith(p, f) = {}
        /\ ascendingX(p)

\* C20 witness: the items of a page came right to left and bottom to top;
\* the page has the line of the upper row before the line of the lower row,
\* and the lower line has its two items left to right.
C20_TwoRowsReconstructed ==
    /\ pdfPc = "done"
    /\ numPages = 1
    /\ items[1] = << [str |-> "Amount", x |-> 500, y |-> 96, hasX |-> TRUE, hasY |-> TRUE],
                     [str |-> "Date", x |-> 100, y |-> 104, hasX |-> TRUE, hasY |-> TRUE],
                     [str |-> "Date", x |-> 100, y |-> 106, hasX |-> TRUE, hasY |-> TRUE] >>
    /\ Len(pages[1]) = 2
    /\ pages[1][1].lineText = <<"Date">>
    /\ pages[1][2].lineText = <<"Date", "Amount">>

\* The rows readPdf makes of the items of a page handed over in this order.
RECURSIVE groupAll(_)
groupAll(itemList) ==
    IF itemList = <<>> THEN <<>>
    ELSE groupByY(groupAll(SubSeq(itemList, 1, Len(itemList) - 1)),
                  itemList[Len(itemList)])

\* The texts of the lines.
lineTexts(lineList) == [k \in DOMAIN lineList |-> lineList[k].lineText]

\* The orders the n items of a page can arrive in.
arrivalOrders(n) ==
    {order \in [1..n -> 1..n] : \A k, l \in 1..n : order[k] = order[l] => k = l}

\* The rows of a page sorted by a sort whose comparator is consistent.
stableRows(byY) == [y \in DOMAIN byY |-> sortByX(byY[y])]

\* C21: the lines of a finished page do not depend on the order its
\* fragments arrived in: the same fragments (each with its horizontal
\* coordinate) handed over in any other order give the same sequence of
\* lines.
C21_ArrivalOrderIrrelevant ==
    \A p \in DOMAIN pages :
        (\A f \in placedItems(p) : f.hasX) =>
            \A order \in arrivalOrders(Len(items[p])) :
                lineTexts(linesOf(stableRows(groupAll([k \in DOMAIN items[p] |->
                                                         items[p][order[k]]]))))
                    = lineTexts(pages[p])

\* A text that is empty or only whitespace.  Joined with ' ' between two
\* other texts it leaves two or more spaces in a row.
blank(str) == str \in {" ", ""}

\* C22: every line of a finished page is whitespace-normalized and not
\* empty: it has a text, no text of it is blank (a blank text at an end is
\* leading or trailing whitespace, a blank text inside is a run of two or
\* more spaces), and a row has a line only when one of its texts is not
\* blank.
C22_LinesNormalized ==
    \A p \in DOMAIN pages :
        /\ \A a \in DOMAIN pages[p] :
               /\ pages[p][a].lineText # <<>>
               /\ \A k \in DOMAIN pages[p][a].lineText : ~blank(pages[p][a].lineText[k])
        /\ Len(pages[p]) =
               Cardinality({MathRound(f.y) : f \in {g \in placedItems(p) : ~blank(g.str)}})

\* The item has both coordinates.
hasCoordinates(item) == item.hasX /\ item.hasY

\* C23: a fragment without its vertical or its horizontal coordinate is
\* left out: no line of the finished page was joined from it, and the lines
\* of the page are those of the other fragments alone.
C23_CoordinateLessExcluded ==
    \A p \in DOMAIN pages :
        /\ \A k \in DOMAIN items[p] :
               ~hasCoordinates(items[p][k]) => linesWith(p, items[p][k]) = {}
        /\ lineTexts(pages[p])
               = lineTexts(linesOf(stableRows(groupAll(SelectSeq(items[p],
                                                                  hasCoordinates)))))

\* C24: pages are reconstructed one by one and kept in page order.  The
\* finished pages are the first pages of the document in their order, and
\* the lines of page p are lines of the items of page p alone: no line is
\* joined from an item of another page.
C24_PagesIndependentInOrder ==
    /\ pdfPc \in {"page", "done"} => Len(pages) = pageNum - 1
    /\ pdfPc = "done" => Len(pages) = numPages
    /\ \A p \in DOMAIN pages :
           \E sorted \in sortedRows(groupAll(items[p])) : pages[p] = linesOf(sorted)

\* C24 witness: two pages with an item each, in rows of the same rounded
\* vertical coordinate; each page has its own line.
C24_SameRowOnTwoPages ==
    /\ pdfPc = "done"
    /\ numPages = 2
    /\ Len(items[1]) = 1 /\ Len(items[2]) = 1
    /\ items[1][1].str = "Date" /\ items[2][1].str = "Amount"
    /\ MathRound(items[1][1].y) = MathRound(items[2][1].y)
    /\ lineTexts(pages[1]) = << <<"Date">> >>
    /\ lineTexts(pages[2]) = << <<"Amount">> >>

\* C25: a missing file is reported before anything is read.  While the
\* path does not exist, readPdf and getPdfDocument are at their check or
\* have raised, no page has been asked for, no item has been read and there
\* are no lines; they raise only for a path that does not exist, the first
\* step of either raises for such a path, and nothing follows the error.
C25_MissingFileReportedFirst ==
    /\ [](/\ ~pathExists =>
                /\ pdfPc \in {"check", "document", "error"}
                /\ pages = <<>> /\ itemsByY = <<>> /\ itemCount(items) = 0
          /\ pdfPc = "error" => ~pathExists)
    /\ [][/\ pdfPc # "error"
          /\ (~pathExists => pdfPc' = "error")
          /\ (pdfPc' = "error" => UNCHANGED <<numPages, pageNum, items, itemsByY, pages>>)
         ]_vars

\* C25 witness: readPdf has raised for a path that does not exist.
C25_RaisedForMissingFile ==
    /\ pdfPc = "error"
    /\ ~pathExists
    /\ pages = <<>>

\* The integer nearest to a coordinate in tenths, a half going up.
nearestInteger(tenths) ==
    CHOOSE n \in -1..((tenths \div 10) + 1) : 10 * n - 5 <= tenths /\ tenths < 10 * n + 5

\* The two items of page p are in one line.
inOneLine(p, f1, f2) == linesWith(p, f1) \cap linesWith(p, f2) # {}

\* C26: two fragments of a finished page are in the same line exactly when
\* their vertical coordinates round to the same integer.
C26_SameLineIffSameRounding ==
    \A p \in DOMAIN pages :
        \A f1, f2 \in placedItems(p) :
            inOneLine(p, f1, f2) <=> nearestInteger(f1.y) = nearestInteger(f2.y)

\* C26 as the code has it: a fragment has a line exactly when a text of
\* the fragments that round to its integer is not blank, and two fragments
\* that have lines are in the same line exactly when their vertical
\* coordinates round to the same integer.
C26_KeptRowsByRounding ==
    \A p \in DOMAIN pages :
        \A f1, f2 \in placedItems(p) :
            /\ linesWith(p, f1) # {} <=>
                   \E g \in placedItems(p) :
                       nearestInteger(g.y) = nearestInteger(f1.y) /\ ~blank(g.str)
            /\ (linesWith(p, f1) # {} /\ linesWith(p, f2) # {}) =>
                   (inOneLine(p, f1, f2) <=> nearestInteger(f1.y) = nearestInteger(f2.y))

\* C26 witness: of three words the two at 9.6 and 10.4 are in one line and
\* the one at 10.6 is in the line before it.
C26_DriftCollapsed ==
    /\ pdfPc = "done"
    /\ numPages = 1
    /\ {items[1][k].y : k \in DOMAIN items[1]} = {96, 104, 106}
    /\ \A k \in DOMAIN items[1] : ~blank(items[1][k].str) /\ items[1][k].hasX
    /\ Len(pages[1]) = 2
    /\ Len(pages[1][1].lineItems) = 1
    /\ Len(pages[1][2].lineItems) = 2

\* C27: every pending transaction is resolved within the run that created
\* it: when the run has returned, pendingTransaction is null.
C27_PendingResolvedInRun ==
    pc = "done" => pendingTransaction = null

\* The patterns of the list that match the line with a date parseDate
\* accepts, by their place in the list.
matching(cleanLine) ==
    {i \in DOMAIN transactionPatterns(cleanLine) :
        /\ transactionPatterns(cleanLine)[i].matched
        /\ parseDate(transactionPatterns(cleanLine)[i].dateStr).valid}

\* What the pattern in place i of the list reads from the line.
readBy(cleanLine, i) == transactionPatterns(cleanLine)[i]

\* C28: the patterns are tried in list order and the first that matches
\* decides alone.  In the revisions that have the list, a line that is
\* processed in TransactionLines with nothing pending and that some pattern
\* matches adds one transaction, whose description and amount are those the
\* first matching pattern reads; the VAT line 'POS Settlement VAT AED a b c'
\* gets the description 'POS Settlement VAT AED a' and the amount -b.
C28_FirstPatternDecides ==
    [][(/\ ActionStep
        /\ rev \in PendingRevisions
        /\ state = TransactionLines
        /\ pendingTransaction = null
        /\ ~skipLineBC(collapseSpaces(trim(currentLine')))
        /\ matching(collapseSpaces(trim(currentLine'))) # {}) =>
           LET decides(cleanLine, i) ==
                   /\ \A j \in matching(cleanLine) : i <= j
                   /\ \A tx \in appended(output, output') :
                          /\ tx.description = readBy(cleanLine, i).description
                          /\ MathAbs(tx.amount) =
                                 MathAbs(parseAmount(readBy(cleanLine, i).amountStr))
           IN  /\ transactionCount(output') = transactionCount(output) + 1
               /\ pendingTransaction' = null
               /\ \E i \in matching(collapseSpaces(trim(currentLine'))) :
                      decides(collapseSpaces(trim(currentLine')), i)
               /\ currentLine' = vatLine =>
                      \A tx \in appended(output, output') :
                          /\ tx.description = <<"POS", "Settlement", "VAT", "AED", "0.75">>
                          /\ tx.amount = Number(-15000)]_vars

\* C28 witness: the VAT line has been recorded as an expense in a revision
\* that has the list of patterns.
C28_VatLineRecorded ==
    /\ rev \in PendingRevisions
    /\ pc = "transition"
    /\ currentLine = vatLine
    /\ acted.state = TransactionLines
    /\ Len(output.expenses) = 1
    /\ output.expenses[1].description = <<"POS", "Settlement", "VAT", "AED", "0.75">>
    /\ output.expenses[1].amount = Number(-15000)

\* The place of a state in the order Header, TransactionLines, End.
stateRank(s) == CASE s = Header -> 1 [] s = TransactionLines -> 2 [] s = End -> 3

\* C29: the state of a run only moves forward.  The states the transitions
\* of the run have returned are Header* TransactionLines* End*: none comes
\* before an earlier one in the order of the states, and End follows neither
\* Header nor the start of the run directly.
C29_StateMovesForward ==
    /\ \A i, j \in DOMAIN visited :
           i < j => stateRank(visited[i]) <= stateRank(visited[j])
    /\ \A i \in DOMAIN visited :
           visited[i] = End =>
               /\ i > 1
               /\ visited[i - 1] \in {TransactionLines, End}
    /\ pc \in {"action", "done"} /\ visited # <<>> => state = visited[Len(visited)]

\* C29 witness: a run of three lines has gone through the three states.
C29_ThroughAllStates ==
    /\ pc = "done"
    /\ visited = <<Header, TransactionLines, End>>

\* C30: no transaction is recorded or started while the state is Header:
\* the action of a line handed over in Header leaves incomes, expenses and
\* pendingTransaction as they were.
C30_NothingRecordedInHeader ==
    [][(ActionStep /\ state = Header) =>
           /\ output'.incomes = output.incomes
           /\ output'.expenses = output.expenses
           /\ pendingTransaction' = pendingTransaction]_vars

\* C30 witness: a line of transaction shape has been handed over in Header,
\* before the table-header line, and nothing is recorded.
C30_TransactionShapeInHeader ==
    /\ pc = "transition"
    /\ acted.state = Header
    /\ currentLine = expenseLine
    /\ transactionCount(output) = 0
    /\ pendingTransaction = null

\* C31: incomes and expenses are append-only during a run and every
\* processed line appends at most one transaction: an action call leaves
\* every recorded transaction where it was and as it was, the two lists
\* together grow by none or one, and a transition call leaves both alone.
C31_AppendOnlyAtMostOne ==
    [][/\ ActionStep =>
              /\ keptTransactions(output, output')
              /\ transactionCount(output') \in
                     {transactionCount(output), transactionCount(output) + 1}
       /\ TransitionStep =>
              /\ output'.incomes = output.incomes
              /\ output'.expenses = output.expenses]_vars

\* The action has appended a second expense behind the first.
C31_SecondExpenseAppended ==
    /\ pc = "transition"
    /\ acted.state = TransactionLines
    /\ Len(output.expenses) = 2
    /\ output.expenses[2].originalText = <<currentLine>>
    /\ output.expenses[1].originalText # <<currentLine>>

\* The lines of the run that moved the state from TransactionLines to End.
closingLines ==
    {k \in DOMAIN visited : k > 1 /\ visited[k - 1] = TransactionLines /\ visited[k] = End}

\* A transaction carries text or a number of the line.
carries(tx, line) ==
    \/ includes(tx.description, collapseSpaces(line))
    \/ \E j \in DOMAIN tx.originalText : tx.originalText[j] = trim(line)
    \/ \E j \in DOMAIN line :
           /\ line[j] \in NumberToken
           /\ MathAbs(tx.amount) = MathAbs(parseAmount(line[j]))

\* C32: the line that moves the state from TransactionLines to End
\* contributes nothing to the transactions.  The action call for it creates
\* no transaction, and no recorded transaction of the run carries its text
\* or its numbers in its description or amount, also when a transaction was
\* pending at that moment.
C32_ClosingLineContributesNothing ==
    /\ [](\A k \in closingLines :
              /\ \A i \in DOMAIN output.incomes : ~carries(output.incomes[i], textLines[k])
              /\ \A i \in DOMAIN output.expenses : ~carries(output.expenses[i], textLines[k]))
    /\ [][(/\ ActionStep
            /\ state = TransactionLines
            /\ nextState(rev, state, currentLine') = End) =>
               transactionCount(output') = transactionCount(output)]_vars

\* A boilerplate line: the repeated table header, 'Balance carried
\* forward', 'Balance brought forward', 'Sheet no.', the footer's
\* 'Important:'.
boilerplate(line) ==
    \/ includes(trim(line), <<"DATE", "VALUE", "DATE", "DESCRIPTION">>)
    \/ includes(trim(line), <<"Balance", "carried", "forward">>)
    \/ includes(trim(line), <<"Balance", "brought", "forward">>)
    \/ startsWith(trim(line), <<"Sheet", "no.">>)
    \/ includes(trim(line), <<"Important:">>)

\* The lines before the last one are a transaction-start line without
\* amount and balance, which is pending, and a boilerplate line after it.
pendingAcrossPageBreak ==
    /\ Len(textLines) >= 2
    /\ boilerplate(textLines[Len(textLines)])
    /\ startsWithDate(collapseSpaces(textLines[Len(textLines) - 1]))
    /\ pendingTransaction # null
    /\ pendingTransaction.originalText = <<textLines[Len(textLines) - 1]>>
    /\ lastNumber(pendingTransaction.description) = ""

unparsableMonths(line) ==
    /\ periodMatch(line) # 0
    /\ line[periodMatch(line) + 4] \notin DOMAIN months
    /\ line[periodMatch(line) + 8] \notin DOMAIN months

\* C34: header fields are never un-set.  Once startDate, endDate, name or
\* accountSuffix hold a value no action call leaves them undefined or empty,
\* and a line that matches the statement-period pattern with months that
\* cannot be parsed leaves startDate and endDate as they were.
C34_HeaderFieldsNeverUnset ==
    [][ActionStep =>
           /\ output.startDate # UndefinedDate => output'.startDate # UndefinedDate
           /\ output.endDate # UndefinedDate => output'.endDate # UndefinedDate
           /\ output.name # <<>> => output'.name # <<>>
           /\ output.accountSuffix # "" => output'.accountSuffix # ""
           /\ unparsableMonths(currentLine') =>
                  /\ output'.startDate = output.startDate
                  /\ output'.endDate = output.endDate]_vars

\* Where the lines of page p have the text, and where they have the item.
placesOfText(p, str) ==
    {place \in (DOMAIN pages[p]) \X (1..MaxItems) :
        /\ place[2] \in DOMAIN pages[p][place[1]].lineText
        /\ pages[p][place[1]].lineText[place[2]] = str}
placesOfItem(p, item) ==
    {place \in (DOMAIN pages[p]) \X (1..MaxItems) :
        /\ place[2] \in DOMAIN pages[p][place[1]].lineItems
        /\ pages[p][place[1]].lineItems[place[2]] = item}

\* The fragments of page p that are the item, and the fragments of kept
\* rows that have the text.
fragments(p, item) == {i \in DOMAIN items[p] : items[p][i] = item}
fragmentsWithText(p, str) ==
    {i \in DOMAIN items[p] :
        /\ items[p][i].hasY
        /\ items[p][i].str = str
        /\ rowKept(p, items[p][i])}

\* Where the rows of the page in progress have the item.
placesInRows(item) ==
    {place \in (DOMAIN itemsByY) \X (1..MaxItems) :
        /\ place[2] \in DOMAIN itemsByY[place[1]]
        /\ itemsByY[place[1]][place[2]] = item}

\* Every fragment with a vertical coordinate is in exactly one row: in
\* the rows of the page in progress and in the lines of a finished page a
\* fragment is as often as it came, and always in the row of its rounded
\* coordinate.
inExactlyOneRow ==
    /\ (pdfPc = "page" /\ pageNum <= numPages) =>
           \A item \in placedItems(pageNum) :
               /\ Cardinality(placesInRows(item)) = Cardinality(fragments(pageNum, item))
               /\ \A place \in placesInRows(item) : place[1] = MathRound(item.y)
    /\ \A p \in DOMAIN pages :
           \A item \in placedItems(p) :
               rowKept(p, item) =>
                   /\ Cardinality(placesOfItem(p, item)) = Cardinality(fragments(p, item))
                   /\ Cardinality(linesWith(p, item)) = 1

\* C35 as stated: reconstruction neither loses nor duplicates text.  Every
\* fragment of a page that has a vertical coordinate is in exactly one row,
\* and its text is in the lines of the page exactly once unless its whole
\* row trims to empty.
C35_NoTextLostOrDuplicated ==
    /\ inExactlyOneRow
    /\ \A p \in DOMAIN pages :
           \A str \in ItemStrings \ {""} :
               Cardinality(placesOfText(p, str)) = Cardinality(fragmentsWithText(p, str))

\* C35 as the code has it: every fragment with a vertical coordinate is in
\* exactly one row, no text is in the lines more often than in the
\* fragments of the kept rows, and every text that is not blank is there
\* exactly as often; a blank fragment at an end of its row is trimmed away
\* with the line.
C35_NoTextLostButTrimmedBlanks ==
    /\ inExactlyOneRow
    /\ \A p \in DOMAIN pages :
           \A str \in ItemStrings :
               /\ Cardinality(placesOfText(p, str)) <= Cardinality(fragmentsWithText(p, str))
               /\ ~blank(str) =>
                      Cardinality(placesOfText(p, str))
                          = Cardinality(fragmentsWithText(p, str))

\* A page with the same text in two rows and a space at the end of one:
\* the lines have the text twice, and the space is trimmed away.
C35_TwiceAndTrimmed ==
    /\ pdfPc = "done"
    /\ numPages = 1
    /\ items[1] = << [str |-> "Date", x |-> 100, y |-> 96, hasX |-> TRUE, hasY |-> TRUE],
                     [str |-> " ", x |-> 500, y |-> 96, hasX |-> TRUE, hasY |-> TRUE],
                     [str |-> "Date", x |-> 100, y |-> 106, hasX |-> TRUE, hasY |-> TRUE] >>
    /\ lineTexts(pages[1]) = << <<"Date">>, <<"Date">> >>

\* A step of exampleStatementParser's run that hands a line to the action.
ExampleActionStep == pc = "action" /\ pc' \in {"transition", "failed"}

\* C36: in exampleStatementParser the first line moves Header to InnerState
\* without being parsed; payments are read and recorded only from lines
\* acted on in InnerState, and the line that ends InnerState is the 'end
\* inner state' line; no line after the state reached End adds a
\* transaction.  A line that is not parsed leaves the accumulator alone and
\* cannot fail the run.
C36_PaymentsFromInnerStateOnly ==
    [][/\ (ExampleActionStep /\ state # InnerState) =>
              /\ output' = output
              /\ pc' = "transition"
       /\ (ExampleActionStep /\ output' # output) =>
              /\ state = InnerState
              /\ output'.incomes = Append(output.incomes, readPayment(currentLine').transaction)
              /\ output'.expenses = output.expenses
       /\ (TransitionStep /\ Len(textLines) = 1) =>
              /\ state = Header
              /\ state' = InnerState
              /\ output = initOutput
       /\ (TransitionStep /\ state = InnerState) =>
              (state' = End <=> lowerLine(currentLine) = <<"end", "inner", "state">>)
       /\ (state = End) =>
              /\ state' = End
              /\ output' = output]_vars

\* Payment lines came first and after the 'end inner state' line: neither
\* was parsed, the run has not failed and nothing is recorded.
C36_PaymentLinesOutsideInnerState ==
    /\ rev = "example"
    /\ pc = "transition"
    /\ textLines = <<paymentLine, endInnerStateLine, paymentLine>>
    /\ state = End
    /\ visited = <<InnerState, End>>
    /\ output = initOutput
====
